---- MODULE Spec2Model ----
(***************************************************************************)
(* sshtui: session registry, attach engine, scrollback buffer and          *)
(* multi-host executor.  The model follows the latest revision of the      *)
(* sources: src/unnamed/part_000 (main loop), src/unnamed/part_002         *)
(* (session.go: createSession, attachToSession, closeAllSessions,          *)
(* closeActiveSession), src/ui.go (showMenu, viewScrollback),              *)
(* src/forward.go (manageForwards) and src/multi.go.                       *)
(*                                                                         *)
(* A *Session is a pointer: the model keeps the Session objects in `heap`  *)
(* (pointer = index) and the global slice `sessions` as a sequence of      *)
(* pointers, so that a goroutine can go on using a Session that has been   *)
(* removed from the slice, as in the program.                              *)
(***************************************************************************)
EXTENDS Integers, Sequences, FiniteSets, TLC

\* ------------------------------------------------------------------ bounds
\* The byte-size constants of part_002:17-21 are scaled down, keeping their
\* order (ScrollbackReplaySize = PtyBufSize < MaxScrollbackSize).
\* ScrollbackReplaySize is 4096 in the source (part_002:18).
ScrollbackReplaySize == 2
\* MaxScrollbackSize is 1024*1024 in the source (part_002:19).
MaxScrollbackSize == 3
\* StdinBufSize is 1024 in the source (part_002:20).
StdinBufSize == 2
\* PtyBufSize is 4096 in the source (part_002:21).
PtyBufSize == 2
\* Sessions ever created in one run.
MaxSessions == 2
\* Attach cycles that reach the I/O proxy in one run.
MaxCycles == 2
\* Bytes a session's process writes to its pty in one run.
MaxOut == 2
\* Bytes the operator types during one attach cycle.
MaxTyped == 2
\* Bytes appended to the scrollback buffer of SpecScroll.
MaxAppend == 5
\* Bytes one remote command writes in a multi-host run.
MaxHostOut == 2
\* Largest byte value the operator types (0 is the detach sentinel).
MaxByte == 1
\* pageSize is 20 in the source (ui.go:69).
PageSize == 2
\* Bytes of the scrollback shown in the pager of SpecPager.
MaxPagerBytes == 3
\* Bytes of a search term typed in the pager.
MaxTermLen == 2
\* n and N commands recorded after a search.
MaxKeys == 3

\* How many times the operator resizes the controlling terminal.
MaxResizes == 2

\* How many connections the operator opens in SpecCreate.
MaxCreates == 3

\* The typed lines that input copies of the multi-host executor may read.
MaxTaken == 2

\* ------------------------------------------------------- program constants
\* ioStop := make(chan bool, 2)
IoStopCap == 2

VARIABLES
    sessions,   \* var sessions []*Session
    nextID,     \* var nextID
    heap,       \* the Session objects, by pointer
    mainPc,     \* position of the command loop (main goroutine)
    cur,        \* the *Session passed to attachToSession
    spawn,      \* createSession: state of the pty.Start goroutine / resultCh
    termMode,   \* mode of the controlling terminal: "cooked" or "raw"
    winch,      \* signal.Notify(winch, SIGWINCH) registered and not stopped
    panicking,  \* a panic is unwinding attachToSession
    tasks,      \* the two copy goroutines of each attach cycle
    ioStop,     \* per attach cycle: values buffered in its ioStop channel
    typed,      \* bytes read from os.Stdin during the current attach cycle
    fwd,        \* bytes written to the attached session's pty in that cycle
    replayed,   \* what the scrollback replay of the last attach wrote
    screen,     \* which screen lists sessions: "menu", "forwards" or "none"
    shown,      \* the [!N] labels on that screen: <<[num, sess], ...>>
    msg         \* the last one-line report printed to the operator

attachVars == <<sessions, nextID, heap, mainPc, cur, spawn, termMode, winch,
                panicking, tasks, ioStop, typed, fwd, replayed, screen, shown,
                msg>>

\* The scrollback buffer on its own (SpecScroll).
VARIABLES
    sbuf,       \* a session's Scrollback
    sbIn,       \* every byte appended to it so far, in order
    sbOut,      \* what the last replay wrote, or the lines of the last view
    sbOp        \* the last operation: "none", "append", "replay", "view"

scrollVars == <<sbuf, sbIn, sbOut, sbOp>>

\* The multi-host executor (SpecMulti).
VARIABLES
    mhPc,       \* the driver: "idle", "run" (in wg.Wait), "reported", "returned"
    mhSel,      \* the selected hosts, as indexes into hosts
    mhTask,     \* per selected host: "start", "copy", "tick", "done"
    mhFailed,   \* the selected hosts whose pty.Start returned an error
    mhOut,      \* per selected host: what its remote command writes in all
    mhBuf,      \* per selected host: var output bytes.Buffer
    results,    \* results := make([]HostResult, len(hosts))
    term        \* what has been written to the terminal since the banner

multiVars == <<mhPc, mhSel, mhTask, mhFailed, mhOut, mhBuf, results, term>>

\* executeMultiHost and its live mode (SpecLive).
VARIABLES
    lvPc,       \* the driver: "idle", "nohosts", "run", "complete", "returned"
    lvSel,      \* the hosts argument of executeMultiHost, as indexes into hosts
    lvTask,     \* per host: "start", "copy", "lock", "p1", "p2", "p3", "unlock", "done"
    lvFailed,   \* the hosts whose pty.Start returned an error
    lvOut,      \* per host: what its remote command writes in all
    lvBuf,      \* per host: var output bytes.Buffer
    lvMutex,    \* outputMutex: 0 when free, else the task holding it
    lvSpawned,  \* the hosts for which pty.Start was called
    lvTerm      \* the writes to the terminal, in order

liveVars == <<lvPc, lvSel, lvTask, lvFailed, lvOut, lvBuf, lvMutex, lvSpawned,
              lvTerm>>

\* The scrollback pager (SpecPager).
VARIABLES
    pgPc,       \* viewScrollback: "closed", "open" (in its loop), "quit"
    pgLines,    \* lines
    pgLine,     \* currentLine (counted from 0)
    pgTerm,     \* searchTerm
    pgResults,  \* searchResults (line indexes counted from 0)
    pgIndex,    \* searchIndex
    pgKeys      \* the search command and the n / N commands typed after it

pagerVars == <<pgPc, pgLines, pgLine, pgTerm, pgResults, pgIndex, pgKeys>>

\* The registry lock sessionsMu and the accesses it guards (SpecLock).
VARIABLES
    lkMain,     \* the main goroutine's access to the registry, by position
    lkMu,       \* sessionsMu: [w |-> the writer holding it or 0, r |-> readers]
    lkMon,      \* per session: its exit monitor: "wait", "write", "done"
    lkLen       \* len(sessions)

lockVars == <<lkMain, lkMu, lkMon, lkLen>>

\* Window sizes and the resize goroutines of attachToSession (SpecResize).
VARIABLES
    termSize,   \* the controlling terminal's size, as a version number
    ptySize,    \* per session: the size last set on its pty by pty.Setsize
    winchCh,    \* signals buffered in the current cycle's winch channel
    rz,         \* the current cycle's resize goroutine: [st, ws]
    late        \* resize goroutines of returned cycles that can still act

resizeVars == <<termSize, ptySize, winchCh, rz, late>>

\* createSession and its pty.Start goroutine, step by step (SpecCreate).
VARIABLES
    crMain,     \* the main goroutine: "idle" (at the menu) or "select"
    crRuns      \* per createSession call: [st, proc, pty, outcome]

createVars == <<crMain, crRuns>>

\* The input copies of the multi-host executor (SpecInput).  The copy of a
\* host exists once pty.Start succeeded for it.
VARIABLES
    icHeld,     \* the hosts whose input copy has read a line it has not written
    icEnded,    \* the hosts whose input copy has returned
    icTaken     \* the typed lines the input copies have read: by whom and where

inputVars == <<icHeld, icEnded, icTaken>>

\* What the attach steps that subscribe and unsubscribe leave alone.
nonAttachVars ==
    <<scrollVars, multiVars, liveVars, pagerVars, lockVars, createVars, inputVars>>

\* What the other registry and attach steps leave alone.
otherVars == <<nonAttachVars, resizeVars>>

vars == <<attachVars, scrollVars, multiVars, liveVars, pagerVars, lockVars,
          resizeVars, createVars, inputVars>>

\* ----------------------------------------------------------------- helpers
Min(a, b) == IF a < b THEN a ELSE b

\* s[len(s)-n:]
LastN(s, n) == SubSeq(s, Len(s) - n + 1, Len(s))

\* The operator's bytes.
StdinBytes == 0..MaxByte

\* What one os.Stdin.Read(buf) can return: 1..StdinBufSize bytes.
StdinChunks == UNION {[1..n -> StdinBytes] : n \in 1..StdinBufSize}

\* for i := 0; i < n; i++ { if buf[i] == 0 ...
HasSentinel(chunk) == \E i \in 1..Len(chunk) : chunk[i] = 0

\* ------------------------------------------------------------ host directory
\* parseSSHConfig's result: an ordered list of hosts; the first has a
\* port forward, the others have none.
hosts == << [Alias |-> "h1", Forwards |-> <<"L">>],
            [Alias |-> "h2", Forwards |-> <<>>],
            [Alias |-> "h3", Forwards |-> <<>>] >>

\* --------------------------------------------------------------- scrollback
\* session.Scrollback = append(session.Scrollback, buf[:n]...)
AppendScrollback(sb, chunk) == sb \o chunk

\* Mutant: the truncation keeps the oldest bytes, sb[:MaxScrollbackSize].
TruncateKeepsHead(sb) ==
    IF Len(sb) > MaxScrollbackSize THEN SubSeq(sb, 1, MaxScrollbackSize) ELSE sb

\* if len(session.Scrollback) > MaxScrollbackSize { keep the last MaxScrollbackSize }
TruncateScrollback(sb) ==
    IF Len(sb) > MaxScrollbackSize THEN LastN(sb, MaxScrollbackSize) ELSE sb

\* Mutant: the replay takes the first bytes, sb[:ScrollbackReplaySize].
ReplayHead(sb) ==
    IF Len(sb) > ScrollbackReplaySize
    THEN SubSeq(sb, 1, ScrollbackReplaySize)
    ELSE sb

\* The replay of attachToSession: the bytes written to os.Stdout.
ReplayTail(sb) ==
    IF Len(sb) > 0
    THEN IF Len(sb) > ScrollbackReplaySize
         THEN LastN(sb, ScrollbackReplaySize)
         ELSE sb
    ELSE <<>>

\* session.Scrollback after the replay: the replay reslices its local copy
\* scrollbackToShow, never the field.
AfterReplay(sb) == sb

\* '\n', the separator of strings.Split in viewScrollback.
LF == 10

RECURSIVE FirstLF(_, _)
\* Index of the first line feed of s at or after i, 0 if there is none.
FirstLF(s, i) ==
    IF i > Len(s) THEN 0 ELSE IF s[i] = LF THEN i ELSE FirstLF(s, i + 1)

RECURSIVE SplitNonEmpty(_)
\* Mutant: a split that drops empty lines, as strings.Fields-like splitting does.
SplitNonEmpty(s) ==
    LET i == FirstLF(s, 1) IN
    IF i = 0 THEN (IF Len(s) = 0 THEN <<>> ELSE << s >>)
    ELSE (IF i = 1 THEN <<>> ELSE << SubSeq(s, 1, i - 1) >>)
         \o SplitNonEmpty(SubSeq(s, i + 1, Len(s)))

RECURSIVE SplitLines(_)
\* strings.Split(string(session.Scrollback), "\n"): k separators give k+1
\* lines, empty ones included.
SplitLines(s) ==
    LET i == FirstLF(s, 1) IN
    IF i = 0 THEN << s >>
    ELSE << SubSeq(s, 1, i - 1) >> \o SplitLines(SubSeq(s, i + 1, Len(s)))

\* viewScrollback: the pager's lines; an empty buffer is reported as
\* "No scrollback available" and no lines are built.
viewScrollback(sb) == IF Len(sb) = 0 THEN <<>> ELSE SplitLines(sb)

\* ----------------------------------------------------------------- sessions
\* &Session{ID: nextID, Alias: host.Alias, Cmd: cmd, PTY: ptmx, Active: true}
\* with the state of the child process and of the exit monitor goroutine.
NewSession(id, alias) ==
    [ ID           |-> id,
      Alias        |-> alias,
      Active       |-> TRUE,
      Scrollback   |-> <<>>,
      ptyOpen      |-> TRUE,        \* PTY not yet Close()d
      proc         |-> "running",   \* the child: "running", "exited", "killed"
      ProcessState |-> "nil",       \* Cmd.ProcessState: "nil", "exited", "killed"
      mon          |-> "wait",      \* exit monitor: "wait", "lock", "done"
      produced     |-> 0,           \* bytes the child has written to the pty
      consumed     |-> 0 ]          \* bytes read from the pty master

\* session.Cmd.ProcessState != nil && session.Cmd.ProcessState.Exited()
HasEnded(s) == heap[s].ProcessState = "exited"

\* showMenu: fmt.Printf("  [!%d] %s (%s)\n", i+1, s.Alias, status)
showMenu(ss) == [i \in 1..Len(ss) |-> [num |-> i, sess |-> ss[i]]]

HostHasForwards(alias) ==
    \E h \in 1..Len(hosts) : hosts[h].Alias = alias /\ Len(hosts[h].Forwards) > 0

RECURSIVE ForwardRows(_, _)
ForwardRows(ss, i) ==
    IF i > Len(ss) THEN <<>>
    ELSE (IF HostHasForwards(heap[ss[i]].Alias)
          THEN << [num |-> heap[ss[i]].ID, sess |-> ss[i]] >>
          ELSE <<>>) \o ForwardRows(ss, i + 1)

\* manageForwards: fmt.Printf("\n  Session [!%d] %s (%s):\n", session.ID, ...)
manageForwardsRows(ss) == ForwardRows(ss, 1)

\* The command loop is back at the top: showMenu(hosts) runs and the loop
\* blocks reading a line.  attachToSession's locals die with its frame.
ToMenu(ss) ==
    /\ mainPc' = "menu"
    /\ screen' = "menu"
    /\ shown' = showMenu(ss)
    /\ cur' = 0
    /\ typed' = <<>>
    /\ fwd' = <<>>
    /\ replayed' = <<>>

InitScroll ==
    /\ sbuf = <<>>
    /\ sbIn = <<>>
    /\ sbOut = <<>>
    /\ sbOp = "none"

InitAttach ==
    /\ sessions = <<>>
    /\ nextID = 1
    /\ heap = <<>>
    /\ mainPc = "menu"
    /\ cur = 0
    /\ spawn = [st |-> "idle", host |-> 0]
    /\ termMode = "cooked"
    /\ winch = FALSE
    /\ panicking = FALSE
    /\ tasks = <<>>
    /\ ioStop = <<>>
    /\ typed = <<>>
    /\ fwd = <<>>
    /\ replayed = <<>>
    /\ screen = "menu"
    /\ shown = <<>>
    /\ msg = "none"

InitMulti ==
    /\ mhPc = "idle"
    /\ mhSel = <<>>
    /\ mhTask = <<>>
    /\ mhFailed = {}
    /\ mhOut = <<>>
    /\ mhBuf = <<>>
    /\ results = <<>>
    /\ term = <<>>

InitLive ==
    /\ lvPc = "idle"
    /\ lvSel = <<>>
    /\ lvTask = <<>>
    /\ lvFailed = {}
    /\ lvOut = <<>>
    /\ lvBuf = <<>>
    /\ lvMutex = 0
    /\ lvSpawned = {}
    /\ lvTerm = <<>>

InitPager ==
    /\ pgPc = "closed"
    /\ pgLines = <<>>
    /\ pgLine = 0
    /\ pgTerm = <<>>
    /\ pgResults = <<>>
    /\ pgIndex = -1
    /\ pgKeys = <<>>

\* Who holds sessionsMu exclusively: nobody, the main goroutine, or the
\* monitor goroutine of the i-th session created.
NoWriter == -1

MainGoroutine == 0

InitResize ==
    /\ termSize = 0
    /\ ptySize = [s \in 1..MaxSessions |-> 0]
    /\ winchCh = 0
    /\ rz = [st |-> "idle", ws |-> 0]
    /\ late = <<>>

InitCreate ==
    /\ crMain = "idle"
    /\ crRuns = <<>>

InitInput ==
    /\ icHeld = {}
    /\ icEnded = {}
    /\ icTaken = <<>>

InitLock ==
    /\ lkMain = "showMenu"
    /\ lkMu = [w |-> NoWriter, r |-> 0]
    /\ lkMon = <<>>
    /\ lkLen = 0

Init ==
    /\ InitAttach /\ InitScroll /\ InitMulti /\ InitLive /\ InitPager
    /\ InitLock /\ InitResize /\ InitCreate /\ InitInput

\* ------------------------------------------------------------ createSession
\* main: a host number was typed; createSession starts pty.Start(cmd) in a
\* goroutine and waits in the select.
Connect(h, maxSessions, maxCycles) ==
    /\ mainPc = "menu"
    /\ Len(heap) < maxSessions
    /\ Len(tasks) < maxCycles
    /\ mainPc' = "create"
    /\ spawn' = [st |-> "starting", host |-> h]
    /\ screen' = "none"
    /\ shown' = <<>>
    /\ msg' = "none"
    /\ UNCHANGED <<sessions, nextID, heap, cur, termMode, winch, panicking,
                   tasks, ioStop, typed, fwd, replayed>>
    /\ UNCHANGED otherVars

\* The goroutine: ptmx, err := pty.Start(cmd); resultCh <- ptyResult{...}
PtyStartOk ==
    /\ spawn.st = "starting"
    /\ spawn' = [spawn EXCEPT !.st = "ok"]
    /\ UNCHANGED <<sessions, nextID, heap, mainPc, cur, termMode, winch,
                   panicking, tasks, ioStop, typed, fwd, replayed, screen,
                   shown, msg>>
    /\ UNCHANGED otherVars

PtyStartErr ==
    /\ spawn.st = "starting"
    /\ spawn' = [spawn EXCEPT !.st = "err"]
    /\ UNCHANGED <<sessions, nextID, heap, mainPc, cur, termMode, winch,
                   panicking, tasks, ioStop, typed, fwd, replayed, screen,
                   shown, msg>>
    /\ UNCHANGED otherVars

\* case <-ctx.Done(): kill the process if there is one, report, return.
CreateTimeout ==
    /\ mainPc = "create"
    /\ spawn' = [st |-> "idle", host |-> 0]
    /\ msg' = "timeout"
    /\ ToMenu(sessions)
    /\ UNCHANGED <<sessions, nextID, heap, termMode, winch, panicking, tasks,
                   ioStop>>
    /\ UNCHANGED otherVars

\* Mutant: the error branch lacks its return and falls through to the
\* registration.
CreateErrorFallsThrough ==
    /\ mainPc = "create"
    /\ spawn.st = "err"
    /\ heap' = Append(heap, NewSession(nextID, hosts[spawn.host].Alias))
    /\ sessions' = Append(sessions, Len(heap) + 1)
    /\ nextID' = nextID + 1
    /\ cur' = Len(heap) + 1
    /\ mainPc' = "attach"
    /\ spawn' = [st |-> "idle", host |-> 0]
    /\ msg' = "error"
    /\ UNCHANGED <<termMode, winch, panicking, tasks, ioStop, typed, fwd,
                   replayed, screen, shown>>
    /\ UNCHANGED otherVars

\* case result := <-resultCh with result.err != nil: report, return.
CreateError ==
    /\ mainPc = "create"
    /\ spawn.st = "err"
    /\ spawn' = [st |-> "idle", host |-> 0]
    /\ msg' = "error"
    /\ ToMenu(sessions)
    /\ UNCHANGED <<sessions, nextID, heap, termMode, winch, panicking, tasks,
                   ioStop>>
    /\ UNCHANGED otherVars

\* Mutant: the id is taken from the length of the list, ID: len(sessions)+1.
CreateRegisterByLength ==
    /\ mainPc = "create"
    /\ spawn.st = "ok"
    /\ heap' = Append(heap, NewSession(Len(sessions) + 1, hosts[spawn.host].Alias))
    /\ sessions' = Append(sessions, Len(heap) + 1)
    /\ nextID' = nextID + 1
    /\ cur' = Len(heap) + 1
    /\ mainPc' = "attach"
    /\ spawn' = [st |-> "idle", host |-> 0]
    /\ UNCHANGED <<termMode, winch, panicking, tasks, ioStop, typed, fwd,
                   replayed, screen, shown, msg>>
    /\ UNCHANGED otherVars

\* case result := <-resultCh with err == nil: register the session under the
\* lock, start the exit monitor, call attachToSession(session).
CreateRegister ==
    /\ mainPc = "create"
    /\ spawn.st = "ok"
    /\ heap' = Append(heap, NewSession(nextID, hosts[spawn.host].Alias))
    /\ sessions' = Append(sessions, Len(heap) + 1)
    /\ nextID' = nextID + 1
    /\ cur' = Len(heap) + 1
    /\ mainPc' = "attach"
    /\ spawn' = [st |-> "idle", host |-> 0]
    /\ UNCHANGED <<termMode, winch, panicking, tasks, ioStop, typed, fwd,
                   replayed, screen, shown, msg>>
    /\ UNCHANGED otherVars

\* ---------------------------------------------------------- attachToSession
\* Mutant: an attach to an ended session marks it active again.
AttachEndedReactivates ==
    /\ mainPc = "attach"
    /\ HasEnded(cur)
    /\ msg' = "ended"
    /\ heap' = [heap EXCEPT ![cur].Active = TRUE]
    /\ ToMenu(sessions)
    /\ UNCHANGED <<sessions, nextID, spawn, termMode, winch, panicking,
                   tasks, ioStop>>
    /\ UNCHANGED otherVars

\* if session.Cmd.ProcessState != nil && ...Exited() { report; return }
AttachEnded ==
    /\ mainPc = "attach"
    /\ HasEnded(cur)
    /\ msg' = "ended"
    /\ ToMenu(sessions)
    /\ UNCHANGED <<sessions, nextID, heap, spawn, termMode, winch, panicking,
                   tasks, ioStop>>
    /\ UNCHANGED otherVars

\* Banner, scrollback replay, pty.Setsize, signal.Notify(winch, SIGWINCH),
\* the resize goroutine and the deferred signal.Stop/close(done).
AttachReplay ==
    /\ mainPc = "attach"
    /\ ~HasEnded(cur)
    /\ replayed' = ReplayTail(heap[cur].Scrollback)
    /\ heap' = [heap EXCEPT ![cur].Scrollback = AfterReplay(@)]
    /\ ptySize' = [ptySize EXCEPT ![cur] = termSize]
    /\ winch' = TRUE
    /\ winchCh' = 0
    /\ rz' = [st |-> "idle", ws |-> 0]
    /\ mainPc' = "att_raw"
    /\ UNCHANGED <<sessions, nextID, cur, spawn, termMode, panicking,
                   tasks, ioStop, typed, fwd, screen, shown, msg>>
    /\ UNCHANGED <<termSize, late>>
    /\ UNCHANGED nonAttachVars

\* Mutant: restore is deferred before the error of makeRaw is checked.
MakeRawFailRestores ==
    /\ mainPc = "att_raw"
    /\ msg' = "rawerror"
    /\ mainPc' = "att_restore"
    /\ UNCHANGED <<sessions, nextID, heap, cur, spawn, termMode, winch,
                   panicking, tasks, ioStop, typed, fwd, replayed, screen,
                   shown>>
    /\ UNCHANGED otherVars

\* oldState, err := makeRaw(...); if err != nil { report; return }
\* Only the deferred signal.Stop is pending.
MakeRawFail ==
    /\ mainPc = "att_raw"
    /\ msg' = "rawerror"
    /\ mainPc' = "att_unsub"
    /\ UNCHANGED <<sessions, nextID, heap, cur, spawn, termMode, winch,
                   panicking, tasks, ioStop, typed, fwd, replayed, screen,
                   shown>>
    /\ UNCHANGED otherVars

\* makeRaw succeeded; defer restore(...); ioStop := make(chan bool, 2); both
\* copy goroutines are started; main blocks in <-ioStop.
MakeRawOk ==
    /\ mainPc = "att_raw"
    /\ termMode' = "raw"
    /\ tasks' = Append(tasks, [sess |-> cur, inT |-> "run", outT |-> "run",
                               buf |-> <<>>])
    /\ ioStop' = Append(ioStop, 0)
    /\ mainPc' = "att_wait"
    /\ UNCHANGED <<sessions, nextID, heap, cur, spawn, winch, panicking,
                   typed, fwd, replayed, screen, shown, msg>>
    /\ UNCHANGED otherVars

\* Mutant: ioStop is one channel shared by every cycle, so a signal left
\* over by an earlier cycle's goroutine is received by a later cycle.
AwaitStopShared ==
    /\ mainPc = "att_wait"
    /\ \E c \in 1..Len(ioStop) :
          /\ ioStop[c] > 0
          /\ ioStop' = [ioStop EXCEPT ![c] = @ - 1]
    /\ mainPc' = "att_drain"
    /\ UNCHANGED <<sessions, nextID, heap, cur, spawn, termMode, winch,
                   panicking, tasks, typed, fwd, replayed, screen, shown, msg>>
    /\ UNCHANGED otherVars

\* <-ioStop
AwaitStop ==
    /\ mainPc = "att_wait"
    /\ ioStop[Len(ioStop)] > 0
    /\ ioStop' = [ioStop EXCEPT ![Len(ioStop)] = @ - 1]
    /\ mainPc' = "att_drain"
    /\ UNCHANGED <<sessions, nextID, heap, cur, spawn, termMode, winch,
                   panicking, tasks, typed, fwd, replayed, screen, shown, msg>>
    /\ UNCHANGED otherVars

\* Mutant: restore is called ahead of drainStdin instead of being deferred.
RestoreBeforeDrain ==
    /\ mainPc = "att_drain"
    /\ termMode' = "cooked"
    /\ mainPc' = "att_notice"
    /\ UNCHANGED <<sessions, nextID, heap, cur, spawn, winch, panicking,
                   tasks, ioStop, typed, fwd, replayed, screen, shown, msg>>
    /\ UNCHANGED otherVars

\* drainStdin()
DrainStdin ==
    /\ mainPc = "att_drain"
    /\ mainPc' = "att_notice"
    /\ UNCHANGED <<sessions, nextID, heap, cur, spawn, termMode, winch,
                   panicking, tasks, ioStop, typed, fwd, replayed, screen,
                   shown, msg>>
    /\ UNCHANGED otherVars

\* Mutant: the detach closes the session's pty and kills its process.
DetachClosesSession ==
    /\ mainPc = "att_notice"
    /\ msg' = "detached"
    /\ heap' = [heap EXCEPT ![cur] = [@ EXCEPT !.ptyOpen = FALSE,
                                              !.proc = "killed"]]
    /\ mainPc' = "att_restore"
    /\ UNCHANGED <<sessions, nextID, cur, spawn, termMode, winch,
                   panicking, tasks, ioStop, typed, fwd, replayed, screen,
                   shown>>
    /\ UNCHANGED otherVars

\* fmt.Print("\n\n[Detached]\n"); the function returns and its defers run.
DetachNotice ==
    /\ mainPc = "att_notice"
    /\ msg' = "detached"
    /\ mainPc' = "att_restore"
    /\ UNCHANGED <<sessions, nextID, heap, cur, spawn, termMode, winch,
                   panicking, tasks, ioStop, typed, fwd, replayed, screen,
                   shown>>
    /\ UNCHANGED otherVars

\* Mutant: restore is called after <-ioStop instead of being deferred, so a
\* panic unwinds past it.
FaultSkipsRestore ==
    /\ mainPc \in {"att_wait", "att_drain", "att_notice"}
    /\ panicking' = TRUE
    /\ mainPc' = "att_unsub"
    /\ UNCHANGED <<sessions, nextID, heap, cur, spawn, termMode, winch, tasks,
                   ioStop, typed, fwd, replayed, screen, shown, msg>>
    /\ UNCHANGED otherVars

\* A panic in attachToSession after raw mode was acquired: the deferred
\* calls run in reverse order of registration, restore first.
Fault ==
    /\ mainPc \in {"att_wait", "att_drain", "att_notice"}
    /\ panicking' = TRUE
    /\ mainPc' = "att_restore"
    /\ UNCHANGED <<sessions, nextID, heap, cur, spawn, termMode, winch, tasks,
                   ioStop, typed, fwd, replayed, screen, shown, msg>>
    /\ UNCHANGED otherVars

\* defer restore(os.Stdin.Fd(), oldState)
AfterRestore(mode) == "cooked"

Restore ==
    /\ mainPc = "att_restore"
    /\ termMode' = AfterRestore(termMode)
    /\ mainPc' = "att_unsub"
    /\ UNCHANGED <<sessions, nextID, heap, cur, spawn, winch, panicking,
                   tasks, ioStop, typed, fwd, replayed, screen, shown, msg>>
    /\ UNCHANGED otherVars

\* The resize goroutine of the cycle once done is closed: with nothing
\* received and nothing buffered it can only return; otherwise it can still
\* act on the session's pty.
Lingering(s) ==
    IF rz.st = "got" THEN <<[sess |-> s, st |-> "got", ws |-> rz.ws]>>
    ELSE IF winchCh > 0 THEN <<[sess |-> s, st |-> "pending", ws |-> 0]>>
    ELSE <<>>

\* Mutant: the deferred function closes done without signal.Stop(winch).
UnsubscribeKeepsNotify ==
    /\ mainPc = "att_unsub"
    /\ late' = late \o Lingering(cur)
    /\ winchCh' = 0
    /\ rz' = [st |-> "idle", ws |-> 0]
    /\ UNCHANGED <<termSize, ptySize>>
    /\ IF panicking
       THEN /\ mainPc' = "att_recover"
            /\ UNCHANGED <<cur, typed, fwd, replayed, screen, shown>>
       ELSE ToMenu(sessions)
    /\ UNCHANGED <<sessions, nextID, heap, spawn, termMode, winch, panicking,
                   tasks, ioStop, msg>>
    /\ UNCHANGED nonAttachVars

\* defer func() { signal.Stop(winch); close(done) }(); then either the
\* function returns to the command loop or the recover handler runs.
Unsubscribe ==
    /\ mainPc = "att_unsub"
    /\ winch' = FALSE
    /\ late' = late \o Lingering(cur)
    /\ winchCh' = 0
    /\ rz' = [st |-> "idle", ws |-> 0]
    /\ UNCHANGED <<termSize, ptySize>>
    /\ IF panicking
       THEN /\ mainPc' = "att_recover"
            /\ UNCHANGED <<cur, typed, fwd, replayed, screen, shown>>
       ELSE ToMenu(sessions)
    /\ UNCHANGED <<sessions, nextID, heap, spawn, termMode, panicking, tasks,
                   ioStop, msg>>
    /\ UNCHANGED nonAttachVars

\* defer func() { if r := recover(); r != nil { report } }()
Recover ==
    /\ mainPc = "att_recover"
    /\ panicking' = FALSE
    /\ msg' = "panic"
    /\ ToMenu(sessions)
    /\ UNCHANGED <<sessions, nextID, heap, spawn, termMode, winch, tasks,
                   ioStop>>
    /\ UNCHANGED otherVars

\* --------------------------------------------------------- copy goroutines
\* The main goroutine is blocked in <-ioStop of the newest cycle.
Attached == mainPc = "att_wait"

\* select { case ioStop <- true: default: }
Signal(c) == [ioStop EXCEPT ![c] = IF @ < IoStopCap THEN @ + 1 ELSE @]

\* Mutant: the chunk is written before it is scanned for the sentinel.
ForwardedWhole(chunk) == chunk

\* What the stdin goroutine writes to the pty for one chunk it has read.
Forwarded(chunk) == IF HasSentinel(chunk) THEN <<>> ELSE chunk

\* Mutant: the stdin goroutine also records what it forwards in the
\* session's scrollback.
StdinCopyLogsInput(c, chunk, maxTyped) ==
    /\ tasks[c].inT = "run"
    /\ Attached => Len(typed) + Len(chunk) <= maxTyped
    /\ HasSentinel(chunk) \/ heap[tasks[c].sess].ptyOpen
    /\ typed' = IF Attached THEN typed \o chunk ELSE typed
    /\ fwd' = IF Attached /\ tasks[c].sess = cur
              THEN fwd \o Forwarded(chunk) ELSE fwd
    /\ heap' = [heap EXCEPT ![tasks[c].sess].Scrollback = @ \o Forwarded(chunk)]
    /\ IF HasSentinel(chunk)
       THEN /\ ioStop' = Signal(c)
            /\ tasks' = [tasks EXCEPT ![c].inT = "detached"]
       ELSE UNCHANGED <<ioStop, tasks>>
    /\ UNCHANGED <<sessions, nextID, mainPc, cur, spawn, termMode,
                   winch, panicking, replayed, screen, shown, msg>>
    /\ UNCHANGED otherVars

\* Stdin -> PTY goroutine of cycle c: one os.Stdin.Read, the sentinel scan
\* and session.PTY.Write(buf[:n]); the write succeeds.  The goroutine's
\* position inT is "run" in its loop, "detached" after the return of the
\* sentinel branch and "done" after the return of an error branch.
StdinCopy(c, chunk, maxTyped) ==
    /\ tasks[c].inT = "run"
    /\ Attached => Len(typed) + Len(chunk) <= maxTyped
    /\ HasSentinel(chunk) \/ heap[tasks[c].sess].ptyOpen
    /\ typed' = IF Attached THEN typed \o chunk ELSE typed
    /\ fwd' = IF Attached /\ tasks[c].sess = cur
              THEN fwd \o Forwarded(chunk) ELSE fwd
    /\ IF HasSentinel(chunk)
       THEN /\ ioStop' = Signal(c)
            /\ tasks' = [tasks EXCEPT ![c].inT = "detached"]
       ELSE UNCHANGED <<ioStop, tasks>>
    /\ UNCHANGED <<sessions, nextID, heap, mainPc, cur, spawn, termMode,
                   winch, panicking, replayed, screen, shown, msg>>
    /\ UNCHANGED otherVars

\* The same with session.PTY.Write failing: the pty is closed or the child
\* is gone.
StdinWriteErr(c, chunk, maxTyped) ==
    /\ tasks[c].inT = "run"
    /\ Attached => Len(typed) + Len(chunk) <= maxTyped
    /\ ~HasSentinel(chunk)
    /\ ~heap[tasks[c].sess].ptyOpen \/ heap[tasks[c].sess].proc # "running"
    /\ typed' = IF Attached THEN typed \o chunk ELSE typed
    /\ ioStop' = Signal(c)
    /\ tasks' = [tasks EXCEPT ![c].inT = "done"]
    /\ UNCHANGED <<sessions, nextID, heap, mainPc, cur, spawn, termMode,
                   winch, panicking, fwd, replayed, screen, shown, msg>>
    /\ UNCHANGED otherVars

\* os.Stdin.Read returns an error.
StdinReadErr(c) ==
    /\ tasks[c].inT = "run"
    /\ ioStop' = Signal(c)
    /\ tasks' = [tasks EXCEPT ![c].inT = "done"]
    /\ UNCHANGED <<sessions, nextID, heap, mainPc, cur, spawn, termMode,
                   winch, panicking, typed, fwd, replayed, screen, shown, msg>>
    /\ UNCHANGED otherVars

\* PTY -> Stdout goroutine of cycle c: n, err := session.PTY.Read(buf) with
\* n > 0, and os.Stdout.Write(buf[:n]).
PtyRead(c, n) ==
    LET s == tasks[c].sess IN
    /\ tasks[c].outT = "run"
    /\ heap[s].ptyOpen
    /\ n <= heap[s].produced - heap[s].consumed
    /\ tasks' = [tasks EXCEPT ![c].outT = "hold",
                              ![c].buf = [i \in 1..n |-> heap[s].consumed + i]]
    /\ heap' = [heap EXCEPT ![s].consumed = @ + n]
    /\ UNCHANGED <<sessions, nextID, mainPc, cur, spawn, termMode, winch,
                   panicking, ioStop, typed, fwd, replayed, screen, shown, msg>>
    /\ UNCHANGED otherVars

\* session.Scrollback = append(session.Scrollback, buf[:n]...)
PtyAppend(c) ==
    LET s == tasks[c].sess IN
    /\ tasks[c].outT = "hold"
    /\ heap' = [heap EXCEPT ![s].Scrollback = AppendScrollback(@, tasks[c].buf)]
    /\ tasks' = [tasks EXCEPT ![c].outT = "trunc", ![c].buf = <<>>]
    /\ UNCHANGED <<sessions, nextID, mainPc, cur, spawn, termMode, winch,
                   panicking, ioStop, typed, fwd, replayed, screen, shown, msg>>
    /\ UNCHANGED otherVars

\* if len(session.Scrollback) > MaxScrollbackSize { ... }
PtyTruncate(c) ==
    LET s == tasks[c].sess IN
    /\ tasks[c].outT = "trunc"
    /\ heap' = [heap EXCEPT ![s].Scrollback = TruncateScrollback(@)]
    /\ tasks' = [tasks EXCEPT ![c].outT = "run"]
    /\ UNCHANGED <<sessions, nextID, mainPc, cur, spawn, termMode, winch,
                   panicking, ioStop, typed, fwd, replayed, screen, shown, msg>>
    /\ UNCHANGED otherVars

\* Mutant: the error branch of the PTY -> Stdout goroutine returns without
\* sending on ioStop.
PtyReadErrSilent(c) ==
    LET s == tasks[c].sess IN
    /\ tasks[c].outT = "run"
    /\ \/ ~heap[s].ptyOpen
       \/ heap[s].proc # "running" /\ heap[s].produced = heap[s].consumed
    /\ tasks' = [tasks EXCEPT ![c].outT = "done"]
    /\ UNCHANGED <<sessions, nextID, heap, mainPc, cur, spawn, termMode,
                   winch, panicking, ioStop, typed, fwd, replayed, screen,
                   shown, msg>>
    /\ UNCHANGED otherVars

\* session.PTY.Read fails: the pty was closed, or the child is gone and its
\* output has been read.
PtyReadErr(c) ==
    LET s == tasks[c].sess IN
    /\ tasks[c].outT = "run"
    /\ \/ ~heap[s].ptyOpen
       \/ heap[s].proc # "running" /\ heap[s].produced = heap[s].consumed
    /\ ioStop' = Signal(c)
    /\ tasks' = [tasks EXCEPT ![c].outT = "done"]
    /\ UNCHANGED <<sessions, nextID, heap, mainPc, cur, spawn, termMode,
                   winch, panicking, typed, fwd, replayed, screen, shown, msg>>
    /\ UNCHANGED otherVars

\* ------------------------------------------------- child process and monitor
\* The remote shell writes a byte to its terminal.
ProcOutput(s, maxOut) ==
    /\ heap[s].proc = "running"
    /\ heap[s].produced < maxOut
    /\ heap' = [heap EXCEPT ![s].produced = @ + 1]
    /\ UNCHANGED <<sessions, nextID, mainPc, cur, spawn, termMode, winch,
                   panicking, tasks, ioStop, typed, fwd, replayed, screen,
                   shown, msg>>
    /\ UNCHANGED otherVars

\* The remote shell exits.
ProcExit(s) ==
    /\ heap[s].proc = "running"
    /\ heap' = [heap EXCEPT ![s].proc = "exited"]
    /\ UNCHANGED <<sessions, nextID, mainPc, cur, spawn, termMode, winch,
                   panicking, tasks, ioStop, typed, fwd, replayed, screen,
                   shown, msg>>
    /\ UNCHANGED otherVars

\* The ssh process is terminated by a signal from outside the program.
ProcSignalled(s) ==
    /\ heap[s].proc = "running"
    /\ heap' = [heap EXCEPT ![s].proc = "killed"]
    /\ UNCHANGED <<sessions, nextID, mainPc, cur, spawn, termMode, winch,
                   panicking, tasks, ioStop, typed, fwd, replayed, screen,
                   shown, msg>>
    /\ UNCHANGED otherVars

\* Mutant: the monitor is woken by a normal exit only.
MonitorWaitExitOnly(s) ==
    /\ heap[s].mon = "wait"
    /\ heap[s].proc = "exited"
    /\ heap' = [heap EXCEPT ![s].mon = "lock",
                            ![s].ProcessState = IF @ = "nil" THEN heap[s].proc
                                                ELSE @]
    /\ UNCHANGED <<sessions, nextID, mainPc, cur, spawn, termMode, winch,
                   panicking, tasks, ioStop, typed, fwd, replayed, screen,
                   shown, msg>>
    /\ UNCHANGED otherVars

\* Exit monitor: cmd.Wait() returns and records the ProcessState.
MonitorWait(s) ==
    /\ heap[s].mon = "wait"
    /\ heap[s].proc # "running"
    /\ heap' = [heap EXCEPT ![s].mon = "lock",
                            ![s].ProcessState = IF @ = "nil" THEN heap[s].proc
                                                ELSE @]
    /\ UNCHANGED <<sessions, nextID, mainPc, cur, spawn, termMode, winch,
                   panicking, tasks, ioStop, typed, fwd, replayed, screen,
                   shown, msg>>
    /\ UNCHANGED otherVars

\* Exit monitor: sessionsMu.Lock(); session.Active = false; Unlock()
MonitorMark(s) ==
    /\ heap[s].mon = "lock"
    /\ heap' = [heap EXCEPT ![s].mon = "done", ![s].Active = FALSE]
    /\ UNCHANGED <<sessions, nextID, mainPc, cur, spawn, termMode, winch,
                   panicking, tasks, ioStop, typed, fwd, replayed, screen,
                   shown, msg>>
    /\ UNCHANGED otherVars

\* ----------------------------------------------------------- command loop
\* PTY.Close(); Process.Kill(); Cmd.Wait() on one session.
Closed(rec) ==
    [rec EXCEPT !.ptyOpen = FALSE,
                !.proc = IF @ = "running" THEN "killed" ELSE @,
                !.ProcessState =
                    IF @ = "nil"
                    THEN (IF rec.proc = "running" THEN "killed" ELSE rec.proc)
                    ELSE @]

\* Mutant: the loop runs upward and stops at the first active session.
FirstActive(ss) ==
    LET act == {i \in 1..Len(ss) : heap[ss[i]].Active} IN
    IF act = {} THEN 0 ELSE CHOOSE i \in act : \A j \in act : i <= j

\* for i := len(sessions) - 1; i >= 0; i-- { if sessions[i].Active { ... } }
LastActive(ss) ==
    LET act == {i \in 1..Len(ss) : heap[ss[i]].Active} IN
    IF act = {} THEN 0 ELSE CHOOSE i \in act : \A j \in act : j <= i

\* Mutant: the slice is shortened at its end, sessions[:len(sessions)-1].
RemoveLast(ss, i) == SubSeq(ss, 1, Len(ss) - 1)

\* sessions = append(sessions[:i], sessions[i+1:]...)
RemoveAt(ss, i) == SubSeq(ss, 1, i - 1) \o SubSeq(ss, i + 1, Len(ss))

\* "x": closeActiveSession()
CloseActive ==
    /\ mainPc = "menu"
    /\ LET i == LastActive(sessions) IN
       IF i = 0
       THEN UNCHANGED <<heap, sessions>>
       ELSE /\ heap' = [heap EXCEPT ![sessions[i]] = Closed(@)]
            /\ sessions' = RemoveAt(sessions, i)
    /\ msg' = "none"
    /\ ToMenu(sessions')
    /\ UNCHANGED <<nextID, spawn, termMode, winch, panicking, tasks, ioStop>>
    /\ UNCHANGED otherVars

\* "q": closeAllSessions(); break
Quit ==
    /\ mainPc = "menu"
    /\ heap' = [p \in 1..Len(heap) |->
                  IF \E i \in 1..Len(sessions) : sessions[i] = p
                  THEN Closed(heap[p]) ELSE heap[p]]
    /\ mainPc' = "exit"
    /\ screen' = "none"
    /\ shown' = <<>>
    /\ msg' = "none"
    /\ UNCHANGED <<sessions, nextID, cur, spawn, termMode, winch, panicking,
                   tasks, ioStop, typed, fwd, replayed>>
    /\ UNCHANGED otherVars

\* Mutant: the !N command is served while an attach is waiting in <-ioStop.
ResumeWhileAttached(num, maxCycles) ==
    /\ mainPc \in {"menu", "att_wait"}
    /\ num > 0 /\ num <= Len(sessions)
    /\ Len(tasks) < maxCycles
    /\ cur' = sessions[num]
    /\ mainPc' = "attach"
    /\ screen' = "none"
    /\ shown' = <<>>
    /\ msg' = "none"
    /\ UNCHANGED <<sessions, nextID, heap, spawn, termMode, winch, panicking,
                   tasks, ioStop, typed, fwd, replayed>>
    /\ UNCHANGED otherVars

\* "!N" with num > 0 && num <= len(sessions): attachToSession(sessions[num-1])
Resume(num, maxCycles) ==
    /\ mainPc = "menu"
    /\ num > 0 /\ num <= Len(sessions)
    /\ Len(tasks) < maxCycles
    /\ cur' = sessions[num]
    /\ mainPc' = "attach"
    /\ screen' = "none"
    /\ shown' = <<>>
    /\ msg' = "none"
    /\ UNCHANGED <<sessions, nextID, heap, spawn, termMode, winch, panicking,
                   tasks, ioStop, typed, fwd, replayed>>
    /\ UNCHANGED otherVars

\* "!N" out of range: "Invalid session number"
ResumeInvalid(num) ==
    /\ mainPc = "menu"
    /\ ~(num > 0 /\ num <= Len(sessions))
    /\ msg' = "invalid"
    /\ ToMenu(sessions)
    /\ UNCHANGED <<sessions, nextID, heap, spawn, termMode, winch, panicking,
                   tasks, ioStop>>
    /\ UNCHANGED otherVars

\* "f": manageForwards(hosts) draws its screen
Forwards ==
    /\ mainPc = "menu"
    /\ mainPc' = "forwards"
    /\ screen' = "forwards"
    /\ shown' = manageForwardsRows(sessions)
    /\ msg' = "none"
    /\ UNCHANGED <<sessions, nextID, heap, cur, spawn, termMode, winch,
                   panicking, tasks, ioStop, typed, fwd, replayed>>
    /\ UNCHANGED otherVars

\* "q" in manageForwards: back to the main loop
ForwardsBack ==
    /\ mainPc = "forwards"
    /\ ToMenu(sessions)
    /\ UNCHANGED <<sessions, nextID, heap, spawn, termMode, winch, panicking,
                   tasks, ioStop, msg>>
    /\ UNCHANGED otherVars

\* ------------------------------------------------------------ specifications
\* The steps that are the same under every environment.
Common ==
    \/ PtyStartOk
    \/ PtyStartErr
    \/ CreateTimeout
    \/ CreateError
    \/ CreateRegister
    \/ AttachEnded
    \/ AttachReplay
    \/ MakeRawFail
    \/ MakeRawOk
    \/ AwaitStop
    \/ DrainStdin
    \/ DetachNotice
    \/ Restore
    \/ Unsubscribe
    \/ \E c \in 1..Len(tasks) : StdinReadErr(c)
    \/ \E c \in 1..Len(tasks) : PtyReadErr(c)
    \/ \E s \in 1..Len(heap) : ProcExit(s)
    \/ \E s \in 1..Len(heap) : MonitorWait(s)
    \/ \E s \in 1..Len(heap) : MonitorMark(s)
    \/ CloseActive
    \/ Quit
    \/ \E num \in 0..(MaxSessions + 1) : ResumeInvalid(num)
    \/ Forwards
    \/ ForwardsBack

\* Spec: the registry with up to MaxSessions sessions.  The remote shells
\* are silent and the operator's only key stroke in a session is the detach
\* key or one other key.
Next ==
    \/ Common
    \/ \E h \in 1..Len(hosts) : Connect(h, MaxSessions, MaxCycles)
    \/ \E num \in 1..MaxSessions : Resume(num, MaxCycles)
    \/ \E c \in 1..Len(tasks), b \in StdinBytes : StdinCopy(c, <<b>>, 1)
    \/ \E c \in 1..Len(tasks), b \in StdinBytes : StdinWriteErr(c, <<b>>, 1)

Spec == Init /\ [][Next]_vars

\* SpecAttach: the attach cycles of one session in full: the remote shell
\* writes output, the operator's input arrives in chunks of any size, and a
\* fault may be raised while attached.
NextAttach ==
    \/ Common
    \/ \E h \in 1..Len(hosts) : Connect(h, 1, MaxCycles)
    \/ \E num \in 1..MaxSessions : Resume(num, MaxCycles)
    \/ \E c \in 1..Len(tasks), chunk \in StdinChunks : StdinCopy(c, chunk, MaxTyped)
    \/ \E c \in 1..Len(tasks), chunk \in StdinChunks :
           StdinWriteErr(c, chunk, MaxTyped)
    \/ \E c \in 1..Len(tasks), n \in 1..PtyBufSize : PtyRead(c, n)
    \/ \E c \in 1..Len(tasks) : PtyAppend(c)
    \/ \E c \in 1..Len(tasks) : PtyTruncate(c)
    \/ \E s \in 1..Len(heap) : ProcOutput(s, MaxOut)
    \/ Fault
    \/ Recover

SpecAttach == Init /\ [][NextAttach]_vars

\* SpecSignal: one silent session whose ssh process may also be terminated
\* by a signal from outside the program.
NextSignal ==
    \/ Common
    \/ \E h \in 1..Len(hosts) : Connect(h, 1, MaxCycles)
    \/ \E num \in 1..MaxSessions : Resume(num, MaxCycles)
    \/ \E c \in 1..Len(tasks), b \in StdinBytes : StdinCopy(c, <<b>>, 1)
    \/ \E c \in 1..Len(tasks), b \in StdinBytes : StdinWriteErr(c, <<b>>, 1)
    \/ \E s \in 1..Len(heap) : ProcSignalled(s)

SpecSignal == Init /\ [][NextSignal]_vars

\* SpecTeardown: the same steps, with the main goroutine scheduled whenever
\* it can run: a receive from a non-empty ioStop, drainStdin, the notice and
\* the deferred calls all return.
SpecTeardown ==
    /\ Init /\ [][NextSignal]_vars
    /\ WF_vars(AwaitStop) /\ WF_vars(DrainStdin) /\ WF_vars(DetachNotice)
    /\ WF_vars(Restore) /\ WF_vars(Unsubscribe)

\* main returns after closeAllSessions: the program exits and every
\* goroutine ends with it, wherever it is.
Terminate ==
    /\ mainPc = "exit"
    /\ mainPc' = "terminated"
    /\ UNCHANGED <<sessions, nextID, heap, cur, spawn, termMode, winch,
                   panicking, tasks, ioStop, typed, fwd, replayed, screen,
                   shown, msg>>
    /\ UNCHANGED otherVars

\* A goroutine of the program takes a step: the program has not exited.
Running(A) == mainPc # "terminated" /\ A

\* SpecMonitor: one silent session up to the end of the program, with the
\* monitor goroutine scheduled whenever it can run and main returning
\* once its loop has ended.
NextMonitor ==
    \/ Running(NextSignal)
    \/ Terminate

SpecMonitor ==
    /\ Init /\ [][NextMonitor]_vars
    /\ \A s \in 1..MaxSessions :
          /\ WF_vars(Running(s <= Len(heap) /\ MonitorWait(s)))
          /\ WF_vars(Running(s <= Len(heap) /\ MonitorMark(s)))
    /\ WF_vars(Terminate)

\* SpecCapture: one session to the first host whose remote shell writes one
\* byte more than the scrollback ceiling; the operator's only key is the
\* detach key.
NextCapture ==
    \/ Common
    \/ Connect(1, 1, MaxCycles)
    \/ \E num \in 1..MaxSessions : Resume(num, MaxCycles)
    \/ \E c \in 1..Len(tasks) : StdinCopy(c, <<0>>, 1)
    \/ \E c \in 1..Len(tasks), n \in 1..PtyBufSize : PtyRead(c, n)
    \/ \E c \in 1..Len(tasks) : PtyAppend(c)
    \/ \E c \in 1..Len(tasks) : PtyTruncate(c)
    \/ \E s \in 1..Len(heap) : ProcOutput(s, MaxScrollbackSize + 1)

SpecCapture == Init /\ [][NextCapture]_vars

\* ------------------------------------------ SpecResize: window size changes
\* The operator resizes the controlling terminal: SIGWINCH is delivered,
\* without blocking, to the channel that is registered and not stopped.
TermResize ==
    /\ termSize < MaxResizes
    /\ termSize' = termSize + 1
    /\ winchCh' = IF winch THEN 1 ELSE winchCh
    /\ UNCHANGED <<ptySize, rz, late>>
    /\ UNCHANGED <<attachVars, nonAttachVars>>

\* pty.Setsize(session.PTY, ws): no effect on a closed pty.
Setsize(s, ws) ==
    IF heap[s].ptyOpen THEN [ptySize EXCEPT ![s] = ws] ELSE ptySize

\* The resize goroutine of the current cycle: case <-winch, and
\* pty.GetsizeFull(os.Stdin).
ResizeRecv ==
    /\ winch
    /\ rz.st = "idle"
    /\ winchCh > 0
    /\ winchCh' = 0
    /\ rz' = [st |-> "got", ws |-> termSize]
    /\ UNCHANGED <<termSize, ptySize, late>>
    /\ UNCHANGED <<attachVars, nonAttachVars>>

\* ... and pty.Setsize(session.PTY, ws), back to the select.
ResizeSet ==
    /\ winch
    /\ rz.st = "got"
    /\ ptySize' = Setsize(cur, rz.ws)
    /\ rz' = [st |-> "idle", ws |-> 0]
    /\ UNCHANGED <<termSize, winchCh, late>>
    /\ UNCHANGED <<attachVars, nonAttachVars>>

\* late without its i-th entry.
Without(i) == SubSeq(late, 1, i - 1) \o SubSeq(late, i + 1, Len(late))

\* The resize goroutine of a returned cycle, with a signal still buffered in
\* its channel and done closed: the select takes case <-winch.
LateRecv(i) ==
    /\ late[i].st = "pending"
    /\ late' = [late EXCEPT ![i] = [@ EXCEPT !.st = "got", !.ws = termSize]]
    /\ UNCHANGED <<termSize, ptySize, winchCh, rz>>
    /\ UNCHANGED <<attachVars, nonAttachVars>>

\* ... or the select takes case <-done and the goroutine returns.
LateDone(i) ==
    /\ late[i].st = "pending"
    /\ late' = Without(i)
    /\ UNCHANGED <<termSize, ptySize, winchCh, rz>>
    /\ UNCHANGED <<attachVars, nonAttachVars>>

\* pty.Setsize of a goroutine whose cycle has returned; its next select
\* finds the channel empty and done closed.
LateSet(i) ==
    /\ late[i].st = "got"
    /\ ptySize' = Setsize(late[i].sess, late[i].ws)
    /\ late' = Without(i)
    /\ UNCHANGED <<termSize, winchCh, rz>>
    /\ UNCHANGED <<attachVars, nonAttachVars>>

\* SpecResize: the attach cycles of one silent session to the first host
\* while the operator resizes the terminal window.
NextResize ==
    \/ Common
    \/ Connect(1, 1, MaxCycles)
    \/ \E num \in 1..MaxSessions : Resume(num, MaxCycles)
    \/ \E c \in 1..Len(tasks), b \in StdinBytes : StdinCopy(c, <<b>>, 1)
    \/ \E c \in 1..Len(tasks), b \in StdinBytes : StdinWriteErr(c, <<b>>, 1)
    \/ Fault
    \/ Recover
    \/ TermResize
    \/ ResizeRecv
    \/ ResizeSet
    \/ \E i \in 1..Len(late) : LateRecv(i)
    \/ \E i \in 1..Len(late) : LateDone(i)
    \/ \E i \in 1..Len(late) : LateSet(i)

SpecResize == Init /\ [][NextResize]_vars

\* ---------------------------------- SpecCreate: createSession step by step
\* The goroutine of the i-th call is in pty.Start ("starting"), has the pty
\* and the started process ("forked") or the error ("failed"), or has sent
\* its result on resultCh ("sent_ok", "sent_err").  outcome is what
\* createSession returned with: "pending" while it is in its select.
NewRun == [st |-> "starting", proc |-> "none", pty |-> "none",
           outcome |-> "pending"]

\* cmd := exec.Command(...); the context, resultCh and the goroutine.
CrConnect ==
    /\ crMain = "idle"
    /\ Len(crRuns) < MaxCreates
    /\ crRuns' = Append(crRuns, NewRun)
    /\ crMain' = "select"
    /\ UNCHANGED <<attachVars, scrollVars, multiVars, liveVars, pagerVars,
                   lockVars, resizeVars, inputVars>>

\* pty.Start(cmd) opens the pty and starts the process: cmd.Process is set.
CrFork(i) ==
    /\ crRuns[i].st = "starting"
    /\ crRuns' = [crRuns EXCEPT ![i] = [@ EXCEPT !.st = "forked",
                                                 !.proc = "running",
                                                 !.pty = "open"]]
    /\ UNCHANGED crMain
    /\ UNCHANGED <<attachVars, scrollVars, multiVars, liveVars, pagerVars,
                   lockVars, resizeVars, inputVars>>

\* pty.Start(cmd) fails: no process, no pty handle.
CrStartErr(i) ==
    /\ crRuns[i].st = "starting"
    /\ crRuns' = [crRuns EXCEPT ![i].st = "failed"]
    /\ UNCHANGED crMain
    /\ UNCHANGED <<attachVars, scrollVars, multiVars, liveVars, pagerVars,
                   lockVars, resizeVars, inputVars>>

\* resultCh <- ptyResult{ptmx: ptmx, err: err}; the channel holds one value,
\* so the send never blocks, whether or not anyone will receive it.
CrSend(i) ==
    /\ crRuns[i].st \in {"forked", "failed"}
    /\ crRuns' = [crRuns EXCEPT ![i].st =
                      IF @ = "forked" THEN "sent_ok" ELSE "sent_err"]
    /\ UNCHANGED crMain
    /\ UNCHANGED <<attachVars, scrollVars, multiVars, liveVars, pagerVars,
                   lockVars, resizeVars, inputVars>>

\* case result := <-resultCh: the error is reported, or the session is
\* registered and owns the process and the pty from then on.
CrReceive ==
    LET i == Len(crRuns) IN
    /\ crMain = "select"
    /\ crRuns[i].st \in {"sent_ok", "sent_err"}
    /\ crRuns' = [crRuns EXCEPT ![i].outcome =
                      IF crRuns[i].st = "sent_ok" THEN "registered"
                      ELSE "error"]
    /\ crMain' = "idle"
    /\ UNCHANGED <<attachVars, scrollVars, multiVars, liveVars, pagerVars,
                   lockVars, resizeVars, inputVars>>

\* case <-ctx.Done(): if cmd.Process != nil { cmd.Process.Kill() }, the
\* report, return.  cmd.Process is written by the goroutine and read here
\* with nothing ordering the two: the read sees the process (seen) or nil.
\* Whatever the goroutine has got or gets later stays with it: resultCh is
\* never received from again.
CrTimeout ==
    LET i == Len(crRuns) IN
    /\ crMain = "select"
    /\ \E seen \in BOOLEAN :
          /\ seen => crRuns[i].proc # "none"
          /\ crRuns' = [crRuns EXCEPT ![i] =
                           [@ EXCEPT !.outcome = "timeout",
                                     !.proc = IF seen THEN "killed" ELSE @]]
    /\ crMain' = "idle"
    /\ UNCHANGED <<attachVars, scrollVars, multiVars, liveVars, pagerVars,
                   lockVars, resizeVars, inputVars>>

NextCreate ==
    \/ CrConnect
    \/ \E i \in 1..Len(crRuns) : CrFork(i)
    \/ \E i \in 1..Len(crRuns) : CrStartErr(i)
    \/ \E i \in 1..Len(crRuns) : CrSend(i)
    \/ CrReceive
    \/ CrTimeout

SpecCreate == Init /\ [][NextCreate]_vars

\* --------------------------------------------------- SpecScroll: the buffer
\* The bytes of the buffer: a line feed and one other byte.
ScrollBytes == {LF, 1}

\* What one session.PTY.Read(buf) with n > 0 can return.
PtyChunks == UNION {[1..n -> ScrollBytes] : n \in 1..PtyBufSize}

\* The capture of one chunk by the PTY -> Stdout goroutine, with no other
\* goroutine in between: append, then truncate.
ScrollAppend(chunk) ==
    /\ Len(sbIn) + Len(chunk) <= MaxAppend
    /\ sbuf' = TruncateScrollback(AppendScrollback(sbuf, chunk))
    /\ sbIn' = sbIn \o chunk
    /\ sbOut' = <<>>
    /\ sbOp' = "append"
    /\ UNCHANGED <<attachVars, multiVars, liveVars, pagerVars, lockVars, resizeVars,
                 createVars, inputVars>>

\* The scrollback replay of attachToSession.
ScrollReplay ==
    /\ sbOut' = ReplayTail(sbuf)
    /\ sbuf' = AfterReplay(sbuf)
    /\ sbOp' = "replay"
    /\ UNCHANGED <<sbIn, attachVars, multiVars, liveVars, pagerVars, lockVars, resizeVars,
                 createVars, inputVars>>

\* viewScrollback builds the pager's lines; it never assigns the buffer.
ScrollView ==
    /\ sbOut' = viewScrollback(sbuf)
    /\ sbOp' = "view"
    /\ UNCHANGED <<sbuf, sbIn, attachVars, multiVars, liveVars, pagerVars, lockVars, resizeVars,
                 createVars, inputVars>>

NextScroll ==
    \/ \E chunk \in PtyChunks : ScrollAppend(chunk)
    \/ ScrollReplay
    \/ ScrollView

SpecScroll == Init /\ [][NextScroll]_vars

\* ------------------------------------------- SpecMulti: multi-host executor
\* selectHosts returns the selected hosts in the order of the host list.
Selections ==
    {sel \in UNION {[1..n -> 1..Len(hosts)] : n \in 1..Len(hosts)} :
        \A i, j \in 1..Len(sel) : i < j => sel[i] < sel[j]}

\* The zero value of HostResult.
ZeroResult == [Alias |-> "", Output |-> <<>>, Error |-> "nil"]

\* What the remote command of host h writes when it writes k bytes.
HostOutput(h, k) == [j \in 1..k |-> 10 * h + j]

\* Mutant: the result goes to the first free slot, as an append in finish
\* order would place it.
StoreInFinishOrder(res, idx, r) ==
    LET free == {i \in 1..Len(res) : res[i] = ZeroResult} IN
    IF free = {} THEN res
    ELSE [res EXCEPT ![CHOOSE i \in free : \A j \in free : i <= j] = r]

\* results[idx] = HostResult{...}
StoreResult(res, idx, r) == [res EXCEPT ![idx] = r]

\* executeMultiHostCollected: the banner, results := make(...), and one
\* goroutine per host; the driver blocks in wg.Wait().
StartCollected(sel) ==
    /\ mhPc = "idle"
    /\ mhPc' = "run"
    /\ mhSel' = sel
    /\ mhTask' = [i \in 1..Len(sel) |-> "start"]
    /\ mhFailed' = {}
    /\ mhOut' = [i \in 1..Len(sel) |-> <<>>]
    /\ mhBuf' = [i \in 1..Len(sel) |-> <<>>]
    /\ results' = [i \in 1..Len(sel) |-> ZeroResult]
    /\ term' = <<>>
    /\ UNCHANGED <<attachVars, scrollVars, liveVars,
                   pagerVars, lockVars, resizeVars,
                 createVars, inputVars>>

\* ptmx, err := pty.Start(cmd) fails: the error is stored, the goroutine
\* returns.
MhSpawnFail(idx) ==
    /\ mhPc = "run"
    /\ mhTask[idx] = "start"
    /\ mhFailed' = mhFailed \cup {idx}
    /\ results' = StoreResult(results, idx,
                       [Alias |-> hosts[mhSel[idx]].Alias, Output |-> <<>>,
                        Error |-> "spawn"])
    /\ mhTask' = [mhTask EXCEPT ![idx] = "done"]
    /\ UNCHANGED <<mhPc, mhSel, mhOut, mhBuf, term, attachVars, scrollVars, liveVars,
                   pagerVars, lockVars, resizeVars,
                 createVars, inputVars>>

\* Mutant: the per-host process is given a session id.
MhSpawnOkTakesId(idx, k) ==
    /\ mhPc = "run"
    /\ mhTask[idx] = "start"
    /\ mhOut' = [mhOut EXCEPT ![idx] = HostOutput(mhSel[idx], k)]
    /\ mhTask' = [mhTask EXCEPT ![idx] = "copy"]
    /\ nextID' = nextID + 1
    /\ UNCHANGED <<sessions, heap, mainPc, cur, spawn, termMode, winch,
                   panicking, tasks, ioStop, typed, fwd, replayed, screen,
                   shown, msg>>
    /\ UNCHANGED <<mhPc, mhSel, mhFailed, mhBuf, results, term, scrollVars,
                   liveVars, pagerVars, lockVars, resizeVars, createVars, inputVars>>

\* pty.Start succeeds; go io.Copy(ptmx, os.Stdin); io.Copy(&output, ptmx)
\* begins.  The remote command will write k bytes.
MhSpawnOk(idx, k) ==
    /\ mhPc = "run"
    /\ mhTask[idx] = "start"
    /\ mhOut' = [mhOut EXCEPT ![idx] = HostOutput(mhSel[idx], k)]
    /\ mhTask' = [mhTask EXCEPT ![idx] = "copy"]
    /\ UNCHANGED <<mhPc, mhSel, mhFailed, mhBuf, results, term, attachVars,
                   scrollVars, liveVars,
                   pagerVars, lockVars, resizeVars,
                 createVars, inputVars>>

\* io.Copy(&output, ptmx): one read of n bytes goes to the buffer.
MhCopy(idx, n) ==
    /\ mhTask[idx] = "copy"
    /\ Len(mhBuf[idx]) + n <= Len(mhOut[idx])
    /\ mhBuf' = [mhBuf EXCEPT ![idx] =
                    @ \o SubSeq(mhOut[idx], Len(@) + 1, Len(@) + n)]
    /\ UNCHANGED <<mhPc, mhSel, mhTask, mhFailed, mhOut, results, term,
                   attachVars, scrollVars, liveVars,
                   pagerVars, lockVars, resizeVars,
                 createVars, inputVars>>

\* The remote command is gone and its output read: io.Copy returns,
\* cmd.Wait() returns, the result is stored.
MhStore(idx) ==
    /\ mhTask[idx] = "copy"
    /\ Len(mhBuf[idx]) = Len(mhOut[idx])
    /\ results' = StoreResult(results, idx,
                       [Alias |-> hosts[mhSel[idx]].Alias,
                        Output |-> mhBuf[idx], Error |-> "nil"])
    /\ mhTask' = [mhTask EXCEPT ![idx] = "tick"]
    /\ UNCHANGED <<mhPc, mhSel, mhFailed, mhOut, mhBuf, term, attachVars,
                   scrollVars, liveVars,
                   pagerVars, lockVars, resizeVars,
                 createVars, inputVars>>

\* fmt.Printf("  ✓ %s\n", h.Alias); the deferred ptmx.Close() and wg.Done().
MhTick(idx) ==
    /\ mhTask[idx] = "tick"
    /\ term' = Append(term, [kind |-> "tick", host |-> hosts[mhSel[idx]].Alias])
    /\ mhTask' = [mhTask EXCEPT ![idx] = "done"]
    /\ UNCHANGED <<mhPc, mhSel, mhFailed, mhOut, mhBuf, results, attachVars,
                   scrollVars, liveVars,
                   pagerVars, lockVars, resizeVars,
                 createVars, inputVars>>

\* for _, result := range results { banner, "Host:", "Error:" if any, output }
ReportSections(res) ==
    [i \in 1..Len(res) |->
        [host |-> res[i].Alias, error |-> res[i].Error, output |-> res[i].Output]]

\* Mutant: the driver prints the report without wg.Wait().
MhReportNoWait ==
    /\ mhPc = "run"
    /\ term' = Append(term, [kind |-> "report",
                             sections |-> ReportSections(results)])
    /\ mhPc' = "reported"
    /\ UNCHANGED <<mhSel, mhTask, mhFailed, mhOut, mhBuf, results, attachVars,
                   scrollVars, liveVars,
                   pagerVars, lockVars, resizeVars,
                 createVars, inputVars>>

\* wg.Wait() returns; the results are displayed.
MhReport ==
    /\ mhPc = "run"
    /\ \A i \in 1..Len(mhTask) : mhTask[i] = "done"
    /\ term' = Append(term, [kind |-> "report",
                             sections |-> ReportSections(results)])
    /\ mhPc' = "reported"
    /\ UNCHANGED <<mhSel, mhTask, mhFailed, mhOut, mhBuf, results, attachVars,
                   scrollVars, liveVars,
                   pagerVars, lockVars, resizeVars,
                 createVars, inputVars>>

\* "Press Enter...": executeMultiHostCollected returns to the command loop.
MhReturn ==
    /\ mhPc = "reported"
    /\ mhPc' = "returned"
    /\ UNCHANGED <<mhSel, mhTask, mhFailed, mhOut, mhBuf, results, term,
                   attachVars, scrollVars, liveVars,
                   pagerVars, lockVars, resizeVars,
                 createVars, inputVars>>

NextMulti ==
    \/ \E sel \in Selections : StartCollected(sel)
    \/ \E idx \in 1..Len(mhTask) : MhSpawnFail(idx)
    \/ \E idx \in 1..Len(mhTask), k \in 0..MaxHostOut : MhSpawnOk(idx, k)
    \/ \E idx \in 1..Len(mhTask), n \in 1..MaxHostOut : MhCopy(idx, n)
    \/ \E idx \in 1..Len(mhTask) : MhStore(idx)
    \/ \E idx \in 1..Len(mhTask) : MhTick(idx)
    \/ MhReport
    \/ MhReturn

SpecMulti == Init /\ [][NextMulti]_vars

\* --------------------------------- SpecLive: executeMultiHost and live mode
\* selectHosts "d": the selected hosts in the order of the host list; the
\* result is empty when nothing is selected.
SelectionsOrNone == Selections \cup {<<>>}

\* Mutant: the check for an empty host set is missing.
NoHostsUnchecked(sel) == FALSE

\* if len(hosts) == 0
NoHostsSelected(sel) == Len(sel) = 0

\* executeMultiHost with no hosts: "No hosts selected. Press Enter..."
ExecuteNoHosts(sel) ==
    /\ lvPc = "idle"
    /\ NoHostsSelected(sel)
    /\ lvSel' = sel
    /\ lvTerm' = Append(lvTerm, [host |-> "", part |-> "nohosts", data |-> <<>>])
    /\ lvPc' = "nohosts"
    /\ UNCHANGED <<lvTask, lvFailed, lvOut, lvBuf, lvMutex, lvSpawned>>
    /\ UNCHANGED <<attachVars, scrollVars, multiVars, pagerVars, lockVars, resizeVars,
                 createVars, inputVars>>

\* bufio.NewReader(os.Stdin).ReadString('\n'); return
NoHostsReturn ==
    /\ lvPc = "nohosts"
    /\ lvPc' = "returned"
    /\ UNCHANGED <<lvSel, lvTask, lvFailed, lvOut, lvBuf, lvMutex, lvSpawned,
                   lvTerm>>
    /\ UNCHANGED <<attachVars, scrollVars, multiVars, pagerVars, lockVars, resizeVars,
                 createVars, inputVars>>

\* executeMultiHost with hosts and an empty command line: return.
ExecuteNoCommand(sel) ==
    /\ lvPc = "idle"
    /\ ~NoHostsSelected(sel)
    /\ lvSel' = sel
    /\ lvPc' = "returned"
    /\ UNCHANGED <<lvTask, lvFailed, lvOut, lvBuf, lvMutex, lvSpawned, lvTerm>>
    /\ UNCHANGED <<attachVars, scrollVars, multiVars, pagerVars, lockVars, resizeVars,
                 createVars, inputVars>>

\* executeMultiHost with hosts, a command and mode "1":
\* executeMultiHostLive prints its banner and starts one goroutine per host;
\* the driver blocks in wg.Wait().
ExecuteLive(sel) ==
    /\ lvPc = "idle"
    /\ ~NoHostsSelected(sel)
    /\ lvSel' = sel
    /\ lvTask' = [i \in 1..Len(sel) |-> "start"]
    /\ lvOut' = [i \in 1..Len(sel) |-> <<>>]
    /\ lvBuf' = [i \in 1..Len(sel) |-> <<>>]
    /\ lvPc' = "run"
    /\ UNCHANGED <<lvFailed, lvMutex, lvSpawned, lvTerm>>
    /\ UNCHANGED <<attachVars, scrollVars, multiVars, pagerVars, lockVars, resizeVars,
                 createVars, inputVars>>

\* ptmx, err := pty.Start(cmd) fails; the task goes to outputMutex.Lock().
LvSpawnFail(idx) ==
    /\ lvTask[idx] = "start"
    /\ lvSpawned' = lvSpawned \cup {idx}
    /\ lvFailed' = lvFailed \cup {idx}
    /\ lvTask' = [lvTask EXCEPT ![idx] = "lock"]
    /\ UNCHANGED <<lvPc, lvSel, lvOut, lvBuf, lvMutex, lvTerm>>
    /\ UNCHANGED <<attachVars, scrollVars, multiVars, pagerVars, lockVars, resizeVars,
                 createVars, inputVars>>

\* Mutant: a host's command is started when the host before it is done.
LvSpawnOkInTurn(idx, k) ==
    /\ lvTask[idx] = "start"
    /\ idx = 1 \/ lvTask[idx - 1] = "done"
    /\ lvSpawned' = lvSpawned \cup {idx}
    /\ lvOut' = [lvOut EXCEPT ![idx] = HostOutput(lvSel[idx], k)]
    /\ lvTask' = [lvTask EXCEPT ![idx] = "copy"]
    /\ UNCHANGED <<lvPc, lvSel, lvFailed, lvBuf, lvMutex, lvTerm>>
    /\ UNCHANGED <<attachVars, scrollVars, multiVars, pagerVars, lockVars,
                   resizeVars, createVars, inputVars>>

\* pty.Start succeeds; go io.Copy(ptmx, os.Stdin); io.Copy(&output, ptmx)
\* begins.  The remote command will write k bytes.
LvSpawnOk(idx, k) ==
    /\ lvTask[idx] = "start"
    /\ lvSpawned' = lvSpawned \cup {idx}
    /\ lvOut' = [lvOut EXCEPT ![idx] = HostOutput(lvSel[idx], k)]
    /\ lvTask' = [lvTask EXCEPT ![idx] = "copy"]
    /\ UNCHANGED <<lvPc, lvSel, lvFailed, lvBuf, lvMutex, lvTerm>>
    /\ UNCHANGED <<attachVars, scrollVars, multiVars, pagerVars, lockVars, resizeVars,
                 createVars, inputVars>>

\* io.Copy(&output, ptmx): one read of n bytes goes to the buffer.
LvCopy(idx, n) ==
    /\ lvTask[idx] = "copy"
    /\ Len(lvBuf[idx]) + n <= Len(lvOut[idx])
    /\ lvBuf' = [lvBuf EXCEPT ![idx] =
                    @ \o SubSeq(lvOut[idx], Len(@) + 1, Len(@) + n)]
    /\ UNCHANGED <<lvPc, lvSel, lvTask, lvFailed, lvOut, lvMutex, lvSpawned,
                   lvTerm>>
    /\ UNCHANGED <<attachVars, scrollVars, multiVars, pagerVars, lockVars, resizeVars,
                 createVars, inputVars>>

\* io.Copy returns at the end of the output; cmd.Wait(); the task goes to
\* outputMutex.Lock().
LvCopyEnd(idx) ==
    /\ lvTask[idx] = "copy"
    /\ Len(lvBuf[idx]) = Len(lvOut[idx])
    /\ lvTask' = [lvTask EXCEPT ![idx] = "lock"]
    /\ UNCHANGED <<lvPc, lvSel, lvFailed, lvOut, lvBuf, lvMutex, lvSpawned,
                   lvTerm>>
    /\ UNCHANGED <<attachVars, scrollVars, multiVars, pagerVars, lockVars, resizeVars,
                 createVars, inputVars>>

\* Mutant: the printing is not guarded by the mutex.
LvLockUnguarded(idx) ==
    /\ lvTask[idx] = "lock"
    /\ lvMutex' = idx
    /\ lvTask' = [lvTask EXCEPT ![idx] = "p1"]
    /\ UNCHANGED <<lvPc, lvSel, lvFailed, lvOut, lvBuf, lvSpawned, lvTerm>>
    /\ UNCHANGED <<attachVars, scrollVars, multiVars, pagerVars, lockVars, resizeVars,
                 createVars, inputVars>>

\* outputMutex.Lock()
LvLock(idx) ==
    /\ lvTask[idx] = "lock"
    /\ lvMutex = 0
    /\ lvMutex' = idx
    /\ lvTask' = [lvTask EXCEPT ![idx] = "p1"]
    /\ UNCHANGED <<lvPc, lvSel, lvFailed, lvOut, lvBuf, lvSpawned, lvTerm>>
    /\ UNCHANGED <<attachVars, scrollVars, multiVars, pagerVars, lockVars, resizeVars,
                 createVars, inputVars>>

\* The three fmt.Printf calls of a block: the rule, "Host: alias", then
\* "Error starting: err" or the captured output.
LvBlockWrite(idx, pc) ==
    LET alias == hosts[lvSel[idx]].Alias IN
    IF pc = "p1" THEN [host |-> alias, part |-> "rule", data |-> <<>>]
    ELSE IF pc = "p2" THEN [host |-> alias, part |-> "name", data |-> <<>>]
    ELSE IF idx \in lvFailed
         THEN [host |-> alias, part |-> "error", data |-> <<>>]
         ELSE [host |-> alias, part |-> "output", data |-> lvBuf[idx]]

LvPrint(idx) ==
    /\ lvTask[idx] \in {"p1", "p2", "p3"}
    /\ lvTerm' = Append(lvTerm, LvBlockWrite(idx, lvTask[idx]))
    /\ lvTask' = [lvTask EXCEPT ![idx] =
                     IF @ = "p1" THEN "p2" ELSE IF @ = "p2" THEN "p3" ELSE "unlock"]
    /\ UNCHANGED <<lvPc, lvSel, lvFailed, lvOut, lvBuf, lvMutex, lvSpawned>>
    /\ UNCHANGED <<attachVars, scrollVars, multiVars, pagerVars, lockVars, resizeVars,
                 createVars, inputVars>>

\* Mutant: the error path returns without outputMutex.Unlock().
LvUnlockNotOnError(idx) ==
    /\ lvTask[idx] = "unlock"
    /\ lvMutex' = IF lvMutex = idx /\ idx \notin lvFailed THEN 0 ELSE lvMutex
    /\ lvTask' = [lvTask EXCEPT ![idx] = "done"]
    /\ UNCHANGED <<lvPc, lvSel, lvFailed, lvOut, lvBuf, lvSpawned, lvTerm>>
    /\ UNCHANGED <<attachVars, scrollVars, multiVars, pagerVars, lockVars, resizeVars,
                 createVars, inputVars>>

\* outputMutex.Unlock() (deferred on the success path), then the deferred
\* ptmx.Close() and wg.Done().
LvUnlock(idx) ==
    /\ lvTask[idx] = "unlock"
    /\ lvMutex' = IF lvMutex = idx THEN 0 ELSE lvMutex
    /\ lvTask' = [lvTask EXCEPT ![idx] = "done"]
    /\ UNCHANGED <<lvPc, lvSel, lvFailed, lvOut, lvBuf, lvSpawned, lvTerm>>
    /\ UNCHANGED <<attachVars, scrollVars, multiVars, pagerVars, lockVars, resizeVars,
                 createVars, inputVars>>

\* wg.Wait() returns: the closing rule and "Execution complete. Press Enter..."
LvComplete ==
    /\ lvPc = "run"
    /\ \A i \in 1..Len(lvTask) : lvTask[i] = "done"
    /\ lvTerm' = Append(lvTerm, [host |-> "", part |-> "footer", data |-> <<>>])
    /\ lvPc' = "complete"
    /\ UNCHANGED <<lvSel, lvTask, lvFailed, lvOut, lvBuf, lvMutex, lvSpawned>>
    /\ UNCHANGED <<attachVars, scrollVars, multiVars, pagerVars, lockVars, resizeVars,
                 createVars, inputVars>>

\* Enter: executeMultiHostLive returns to the command loop.
LvReturn ==
    /\ lvPc = "complete"
    /\ lvPc' = "returned"
    /\ UNCHANGED <<lvSel, lvTask, lvFailed, lvOut, lvBuf, lvMutex, lvSpawned,
                   lvTerm>>
    /\ UNCHANGED <<attachVars, scrollVars, multiVars, pagerVars, lockVars, resizeVars,
                 createVars, inputVars>>

NextLive ==
    \/ \E sel \in SelectionsOrNone : ExecuteNoHosts(sel)
    \/ NoHostsReturn
    \/ \E sel \in SelectionsOrNone : ExecuteNoCommand(sel)
    \/ \E sel \in SelectionsOrNone : ExecuteLive(sel)
    \/ \E idx \in 1..Len(lvTask) : LvSpawnFail(idx)
    \/ \E idx \in 1..Len(lvTask), k \in 0..MaxHostOut : LvSpawnOk(idx, k)
    \/ \E idx \in 1..Len(lvTask), n \in 1..MaxHostOut : LvCopy(idx, n)
    \/ \E idx \in 1..Len(lvTask) : LvCopyEnd(idx)
    \/ \E idx \in 1..Len(lvTask) : LvLock(idx)
    \/ \E idx \in 1..Len(lvTask) : LvPrint(idx)
    \/ \E idx \in 1..Len(lvTask) : LvUnlock(idx)
    \/ LvComplete
    \/ LvReturn

SpecLive == Init /\ [][NextLive]_vars

\* ------------------------------ SpecInput: the input copies of the live mode
\* go io.Copy(ptmx, os.Stdin), started by the task of every host whose
\* pty.Start succeeded.
InputCopies == lvSpawned \ lvFailed

\* The input copies blocked in os.Stdin.Read.
InputReaders == InputCopies \ (icEnded \cup icHeld)

\* A line is typed and os.Stdin.Read returns it to the input copy of host
\* idx; at records where the driver is at that moment.
IcRead(idx) ==
    /\ idx \in InputReaders
    /\ Len(icTaken) < MaxTaken
    /\ icHeld' = icHeld \cup {idx}
    /\ icTaken' = Append(icTaken, [by |-> idx, at |-> lvPc])
    /\ UNCHANGED icEnded
    /\ UNCHANGED <<attachVars, scrollVars, multiVars, liveVars, pagerVars,
                   lockVars, resizeVars, createVars>>

\* The input copy writes what it read to ptmx.  Once the task's deferred
\* ptmx.Close() has run the write fails and io.Copy returns; until then the
\* line goes to the host's ssh and the copy reads again.
IcWrite(idx) ==
    /\ idx \in icHeld
    /\ icHeld' = icHeld \ {idx}
    /\ icEnded' = IF lvTask[idx] = "done" THEN icEnded \cup {idx} ELSE icEnded
    /\ UNCHANGED icTaken
    /\ UNCHANGED <<attachVars, scrollVars, multiVars, liveVars, pagerVars,
                   lockVars, resizeVars, createVars>>

NextInput ==
    \/ NextLive
    \/ \E idx \in 1..Len(lvTask) : IcRead(idx)
    \/ \E idx \in 1..Len(lvTask) : IcWrite(idx)

SpecInput == Init /\ [][NextInput]_vars

\* --------------------------- SpecRegExec: a multi-host run beside a session
\* No executeMultiHost call is in progress.
NoRun == lvPc \in {"idle", "returned"} /\ mhPc \in {"idle", "returned"}

\* The "m" command with the first host selected, in live mode ...
RunLive ==
    \/ ExecuteLive(<<1>>)
    \/ \E idx \in 1..Len(lvTask) : LvSpawnFail(idx)
    \/ \E idx \in 1..Len(lvTask), k \in 0..MaxHostOut : LvSpawnOk(idx, k)
    \/ \E idx \in 1..Len(lvTask), n \in 1..MaxHostOut : LvCopy(idx, n)
    \/ \E idx \in 1..Len(lvTask) : LvCopyEnd(idx)
    \/ \E idx \in 1..Len(lvTask) : LvLock(idx)
    \/ \E idx \in 1..Len(lvTask) : LvPrint(idx)
    \/ \E idx \in 1..Len(lvTask) : LvUnlock(idx)
    \/ LvComplete
    \/ LvReturn

\* ... or in collected mode.
RunCollected ==
    \/ StartCollected(<<1>>)
    \/ \E idx \in 1..Len(mhTask) : MhSpawnFail(idx)
    \/ \E idx \in 1..Len(mhTask), k \in 0..MaxHostOut : MhSpawnOk(idx, k)
    \/ \E idx \in 1..Len(mhTask), n \in 1..MaxHostOut : MhCopy(idx, n)
    \/ \E idx \in 1..Len(mhTask) : MhStore(idx)
    \/ \E idx \in 1..Len(mhTask) : MhTick(idx)
    \/ MhReport
    \/ MhReturn

\* What the session's process and its monitor goroutine do meanwhile.
Background ==
    \/ \E s \in 1..Len(heap) : ProcExit(s)
    \/ \E s \in 1..Len(heap) : MonitorWait(s)
    \/ \E s \in 1..Len(heap) : MonitorMark(s)

\* SpecRegExec: one silent session is opened and detached, and the operator
\* runs a command on the first host from the menu, once in either mode.
NextRegExec ==
    \/ NoRun /\ NextSignal
    \/ ~NoRun /\ Background
    \/ mainPc = "menu" /\ Len(sessions) > 0 /\ mhPc = "idle" /\ RunLive
    \/ mainPc = "menu" /\ Len(sessions) > 0 /\ lvPc = "idle" /\ RunCollected

SpecRegExec == Init /\ [][NextRegExec]_vars

\* ------------------------------------------- SpecPager: the scrollback pager
\* The bytes of a scrollback shown in the pager: a line feed, 'A', 'a', 'b'.
PagerBytes == {LF, 65, 97, 98}

PagerScrollbacks == UNION {[1..n -> PagerBytes] : n \in 0..MaxPagerBytes}

\* The search terms the operator types after "/".
PagerTerms == UNION {[1..n -> PagerBytes \ {LF}] : n \in 0..MaxTermLen}

\* strings.ToLower, byte by byte.
ToLower(s) == [i \in 1..Len(s) |-> IF s[i] \in 65..90 THEN s[i] + 32 ELSE s[i]]

\* strings.Contains(s, sub)
Contains(s, sub) ==
    \E i \in 0..(Len(s) - Len(sub)) : SubSeq(s, i + 1, i + Len(sub)) = sub

\* Mutant: the comparison is made without strings.ToLower.
MatchesCaseSensitive(line, t) == Contains(line, t)

\* strings.Contains(strings.ToLower(line), strings.ToLower(searchTerm))
Matches(line, t) == Contains(ToLower(line), ToLower(t))

RECURSIVE SearchFrom(_, _, _)
\* for i, line := range lines { if match { searchResults = append(searchResults, i) } }
SearchFrom(lines, t, i) ==
    IF i > Len(lines) THEN <<>>
    ELSE (IF Matches(lines[i], t) THEN << i - 1 >> ELSE <<>>)
         \o SearchFrom(lines, t, i + 1)

\* searchIndex = (searchIndex + 1) % len(searchResults)
NextMatch(idx, m) == (idx + 1) % m

\* searchIndex = (searchIndex - 1 + len(searchResults)) % len(searchResults)
PrevMatch(idx, m) == (idx - 1 + m) % m

\* "v" and a session number: viewScrollback(session) on a scrollback that is
\* not empty splits it into lines and enters its loop.
PagerOpen(sb) ==
    /\ pgPc = "closed"
    /\ Len(sb) > 0
    /\ pgLines' = viewScrollback(sb)
    /\ pgLine' = 0
    /\ pgTerm' = <<>>
    /\ pgResults' = <<>>
    /\ pgIndex' = -1
    /\ pgKeys' = <<>>
    /\ pgPc' = "open"
    /\ UNCHANGED <<attachVars, scrollVars, multiVars, liveVars, lockVars, resizeVars,
                 createVars, inputVars>>

\* viewScrollback on an empty scrollback: "No scrollback available", return.
PagerEmpty(sb) ==
    /\ pgPc = "closed"
    /\ Len(sb) = 0
    /\ pgPc' = "quit"
    /\ UNCHANGED <<pgLines, pgLine, pgTerm, pgResults, pgIndex, pgKeys>>
    /\ UNCHANGED <<attachVars, scrollVars, multiVars, liveVars, lockVars, resizeVars,
                 createVars, inputVars>>

\* case input == "q"
PagerQuit ==
    /\ pgPc = "open"
    /\ pgPc' = "quit"
    /\ UNCHANGED <<pgLines, pgLine, pgTerm, pgResults, pgIndex, pgKeys>>
    /\ UNCHANGED <<attachVars, scrollVars, multiVars, liveVars, lockVars, resizeVars,
                 createVars, inputVars>>

\* Mutant: j adds a page without comparing against len(lines).
PagerScrollUnchecked(key) ==
    /\ pgPc = "open"
    /\ pgLine' =
          IF key = "j" THEN pgLine + PageSize
          ELSE IF key = "k"
          THEN (IF pgLine - PageSize >= 0 THEN pgLine - PageSize ELSE 0)
          ELSE IF key = "g" THEN 0
          ELSE (IF Len(pgLines) > PageSize THEN Len(pgLines) - PageSize
                ELSE pgLine)
    /\ UNCHANGED <<pgPc, pgLines, pgTerm, pgResults, pgIndex, pgKeys>>
    /\ UNCHANGED <<attachVars, scrollVars, multiVars, liveVars, lockVars,
                   resizeVars, createVars, inputVars>>

\* case input == "j" || input == "", "k", "g", "G"
PagerScroll(key) ==
    /\ pgPc = "open"
    /\ pgLine' =
          IF key = "j"
          THEN (IF pgLine + PageSize < Len(pgLines) THEN pgLine + PageSize
                ELSE pgLine)
          ELSE IF key = "k"
          THEN (IF pgLine - PageSize >= 0 THEN pgLine - PageSize ELSE 0)
          ELSE IF key = "g" THEN 0
          ELSE (IF Len(pgLines) > PageSize THEN Len(pgLines) - PageSize
                ELSE pgLine)
    /\ UNCHANGED <<pgPc, pgLines, pgTerm, pgResults, pgIndex, pgKeys>>
    /\ UNCHANGED <<attachVars, scrollVars, multiVars, liveVars, lockVars, resizeVars,
                 createVars, inputVars>>

\* case strings.HasPrefix(input, "/")
PagerSearch(t) ==
    /\ pgPc = "open"
    /\ pgTerm' = t
    /\ pgResults' = SearchFrom(pgLines, t, 1)
    /\ IF Len(pgResults') > 0
       THEN pgIndex' = 0 /\ pgLine' = pgResults'[1]
       ELSE UNCHANGED <<pgIndex, pgLine>>
    /\ pgKeys' = << "/" >>
    /\ UNCHANGED <<pgPc, pgLines>>
    /\ UNCHANGED <<attachVars, scrollVars, multiVars, liveVars, lockVars, resizeVars,
                 createVars, inputVars>>

\* case input == "n", case input == "N"
PagerMatch(key) ==
    /\ pgPc = "open"
    /\ Len(pgKeys) > 0 => Len(pgKeys) <= MaxKeys
    /\ IF Len(pgResults) > 0
       THEN /\ pgIndex' = IF key = "n" THEN NextMatch(pgIndex, Len(pgResults))
                                       ELSE PrevMatch(pgIndex, Len(pgResults))
            /\ pgLine' = pgResults[pgIndex' + 1]
       ELSE UNCHANGED <<pgIndex, pgLine>>
    /\ pgKeys' = IF Len(pgKeys) > 0 THEN Append(pgKeys, key) ELSE pgKeys
    /\ UNCHANGED <<pgPc, pgLines, pgTerm, pgResults>>
    /\ UNCHANGED <<attachVars, scrollVars, multiVars, liveVars, lockVars, resizeVars,
                 createVars, inputVars>>

NextPager ==
    \/ \E sb \in PagerScrollbacks : PagerOpen(sb)
    \/ \E sb \in PagerScrollbacks : PagerEmpty(sb)
    \/ PagerQuit
    \/ \E key \in {"j", "k", "g", "G"} : PagerScroll(key)
    \/ \E t \in PagerTerms : PagerSearch(t)
    \/ \E key \in {"n", "N"} : PagerMatch(key)

SpecPager == Init /\ [][NextPager]_vars

\* ------------------------------------ SpecExec: both display modes, fairly
\* One executeMultiHost call at a time, in either mode; the Go scheduler
\* runs every goroutine that can take a step, and every remote command
\* ends.
NextExec ==
    \/ mhPc = "idle" /\ NextLive
    \/ lvPc = "idle" /\ NextMulti

SpecExec == Init /\ [][NextExec]_vars /\ WF_vars(NextExec)

\* ------------------------------------ SpecLock: sessionsMu and its accesses
\* The main goroutine's position lkMain names the access to `sessions` it is
\* in the middle of; lkMu is the RWMutex as the Lock/RLock calls leave it.
\* The sites where the main goroutine reads the collection.
ReadSites == {"showMenu", "view_len", "view", "resume", "forwards", "invalid"}

\* The sites where the main goroutine creates or removes an entry.
WriteSites == {"create", "close", "quit"}

\* The read sites that take sessionsMu.RLock() around the read.
RLockedSites == {"view_len", "view", "resume", "forwards"}

MuFree == lkMu.w = NoWriter /\ lkMu.r = 0

\* showMenu: len(sessions) and the range over sessions, with no lock taken.
LkShowMenu ==
    /\ lkMain = "showMenu"
    /\ lkMain' = "prompt"
    /\ UNCHANGED <<lkMu, lkMon, lkLen>>
    /\ UNCHANGED <<attachVars, scrollVars, multiVars, liveVars, pagerVars,
                   resizeVars, createVars, inputVars>>

\* sessionsMu.Lock() of createSession, closeActiveSession, closeAllSessions.
LkLock(site) ==
    /\ lkMain = "prompt"
    /\ site = "create" => Len(lkMon) < MaxSessions
    /\ MuFree
    /\ lkMu' = [lkMu EXCEPT !.w = MainGoroutine]
    /\ lkMain' = site
    /\ UNCHANGED <<lkMon, lkLen>>
    /\ UNCHANGED <<attachVars, scrollVars, multiVars, liveVars, pagerVars,
                   resizeVars, createVars, inputVars>>

\* createSession: the append, the unlock, and the monitor goroutine started.
LkCreateUnlock ==
    /\ lkMain = "create"
    /\ lkLen' = lkLen + 1
    /\ lkMon' = Append(lkMon, "wait")
    /\ lkMu' = [lkMu EXCEPT !.w = NoWriter]
    /\ lkMain' = "showMenu"
    /\ UNCHANGED <<attachVars, scrollVars, multiVars, liveVars, pagerVars,
                   resizeVars, createVars, inputVars>>

\* closeActiveSession: at most one entry removed, then the deferred unlock.
LkCloseUnlock ==
    /\ lkMain = "close"
    /\ lkLen' = IF lkLen > 0 THEN lkLen - 1 ELSE lkLen
    /\ lkMu' = [lkMu EXCEPT !.w = NoWriter]
    /\ lkMain' = "showMenu"
    /\ UNCHANGED lkMon
    /\ UNCHANGED <<attachVars, scrollVars, multiVars, liveVars, pagerVars,
                   resizeVars, createVars, inputVars>>

\* closeAllSessions: the range, the deferred unlock, and main returns.
LkQuitUnlock ==
    /\ lkMain = "quit"
    /\ lkMu' = [lkMu EXCEPT !.w = NoWriter]
    /\ lkMain' = "exit"
    /\ UNCHANGED <<lkMon, lkLen>>
    /\ UNCHANGED <<attachVars, scrollVars, multiVars, liveVars, pagerVars,
                   resizeVars, createVars, inputVars>>

\* sessionsMu.RLock() of the v and !N commands and of manageForwards.
LkRLock(site) ==
    /\ lkMain = "prompt"
    /\ lkMu.w = NoWriter
    /\ lkMu' = [lkMu EXCEPT !.r = lkMu.r + 1]
    /\ lkMain' = site
    /\ UNCHANGED <<lkMon, lkLen>>
    /\ UNCHANGED <<attachVars, scrollVars, multiVars, liveVars, pagerVars,
                   resizeVars, createVars, inputVars>>

\* sessionsMu.RUnlock(); an !N that names no session goes on to report
\* len(sessions) after the unlock.
LkRUnlock ==
    /\ lkMain \in RLockedSites
    /\ lkMu' = [lkMu EXCEPT !.r = lkMu.r - 1]
    /\ \E num \in 0..(MaxSessions + 1) :
          lkMain' = IF lkMain = "resume" /\ ~(num > 0 /\ num <= lkLen)
                    THEN "invalid"
                    ELSE "showMenu"
    /\ UNCHANGED <<lkMon, lkLen>>
    /\ UNCHANGED <<attachVars, scrollVars, multiVars, liveVars, pagerVars,
                   resizeVars, createVars, inputVars>>

\* "Invalid session number: %d (have %d sessions)": len(sessions), no lock.
LkInvalid ==
    /\ lkMain = "invalid"
    /\ lkMain' = "showMenu"
    /\ UNCHANGED <<lkMu, lkMon, lkLen>>
    /\ UNCHANGED <<attachVars, scrollVars, multiVars, liveVars, pagerVars,
                   resizeVars, createVars, inputVars>>

\* The monitor goroutine after cmd.Wait(): sessionsMu.Lock().
LkMonLock(i) ==
    /\ lkMon[i] = "wait"
    /\ MuFree
    /\ lkMu' = [lkMu EXCEPT !.w = i]
    /\ lkMon' = [lkMon EXCEPT ![i] = "write"]
    /\ UNCHANGED <<lkMain, lkLen>>
    /\ UNCHANGED <<attachVars, scrollVars, multiVars, liveVars, pagerVars,
                   resizeVars, createVars, inputVars>>

\* session.Active = false; sessionsMu.Unlock().
LkMonUnlock(i) ==
    /\ lkMon[i] = "write"
    /\ lkMu' = [lkMu EXCEPT !.w = NoWriter]
    /\ lkMon' = [lkMon EXCEPT ![i] = "done"]
    /\ UNCHANGED <<lkMain, lkLen>>
    /\ UNCHANGED <<attachVars, scrollVars, multiVars, liveVars, pagerVars,
                   resizeVars, createVars, inputVars>>

NextLock ==
    \/ LkShowMenu
    \/ \E site \in WriteSites : LkLock(site)
    \/ LkCreateUnlock
    \/ LkCloseUnlock
    \/ LkQuitUnlock
    \/ \E site \in RLockedSites : LkRLock(site)
    \/ LkRUnlock
    \/ LkInvalid
    \/ \E i \in 1..Len(lkMon) : LkMonLock(i)
    \/ \E i \in 1..Len(lkMon) : LkMonUnlock(i)

SpecLock == Init /\ [][NextLock]_vars

\* ===================================================================== claims

RECURSIVE FirstZero(_, _)
FirstZero(s, i) ==
    IF i > Len(s) THEN 0 ELSE IF s[i] = 0 THEN i ELSE FirstZero(s, i + 1)

\* The bytes of s that precede its first byte 0.
BeforeSentinel(s) == SubSeq(s, 1, FirstZero(s, 1) - 1)

\* C2: when the input typed during an attach cycle contains byte 0, the
\* bytes forwarded to the pseudo-terminal are exactly the bytes before the
\* first 0, however the input is split into read chunks.
C2_ForwardsBytesBeforeSentinel ==
    HasSentinel(typed) => fwd = BeforeSentinel(typed)

\* C3: once the appended bytes exceed the ceiling, the buffer is exactly the
\* last MaxScrollbackSize bytes of everything appended.
C3_TruncationLaw ==
    Len(sbIn) > MaxScrollbackSize => sbuf = LastN(sbIn, MaxScrollbackSize)

C3_Witness ==
    /\ sbOp = "append"
    /\ Len(sbIn) > MaxScrollbackSize
    /\ sbIn[1] # sbIn[Len(sbIn) - MaxScrollbackSize + 1]

\* C4: the replay writes at most ScrollbackReplaySize bytes: the whole
\* buffer when it is shorter, its last ScrollbackReplaySize bytes
\* otherwise; and it leaves the buffer as it was.
C4_Step ==
    sbOp' = "replay" =>
        /\ Len(sbOut') <= ScrollbackReplaySize
        /\ Len(sbuf) < ScrollbackReplaySize => sbOut' = sbuf
        /\ Len(sbuf) >= ScrollbackReplaySize =>
               sbOut' = LastN(sbuf, ScrollbackReplaySize)
        /\ sbuf' = sbuf

C4_ReplayTail == [][C4_Step]_vars

C4_Witness ==
    /\ sbOp = "replay"
    /\ Len(sbuf) > ScrollbackReplaySize
    /\ sbuf[1] # sbuf[Len(sbuf) - ScrollbackReplaySize + 1]

RECURSIVE JoinLines(_)
\* The lines put together again with a line feed between them.
JoinLines(ls) ==
    IF Len(ls) = 0 THEN <<>>
    ELSE IF Len(ls) = 1 THEN ls[1]
    ELSE ls[1] \o << LF >> \o JoinLines(Tail(ls))

\* C5: for appended bytes of total length at most the ceiling, the pager's
\* lines rejoined with line feeds are exactly the appended bytes, and the
\* buffer still holds them after the view.
C5_ViewRoundTrip ==
    (sbOp = "view" /\ Len(sbIn) <= MaxScrollbackSize) =>
        /\ JoinLines(sbOut) = sbIn
        /\ sbuf = sbIn

\* A view of a buffer with an empty line inside and a line feed at its end.
C5_Witness ==
    /\ sbOp = "view"
    /\ Len(sbIn) = MaxScrollbackSize
    /\ Len(sbOut) >= 3
    /\ sbIn[Len(sbIn)] = LF

NoDup(ss) == \A i, j \in 1..Len(ss) : i # j => ss[i] # ss[j]

\* C6: after any create, close-active or exit step the sessions hold the
\* positions 1..N, one each; the list only changes by an append at its end
\* or by closeActiveSession removing one session, and closing the session
\* at position k moves every later session one position down, in order.
C6_Step ==
    /\ NoDup(sessions')
    /\ screen' = "menu" =>
          /\ Len(shown') = Len(sessions')
          /\ \A i \in 1..Len(shown') :
                 shown'[i].num = i /\ shown'[i].sess = sessions'[i]
    /\ Len(sessions') >= Len(sessions) =>
          SubSeq(sessions', 1, Len(sessions)) = sessions
    /\ \A k \in 1..Len(sessions) :
          (mainPc' = "menu" /\ heap[sessions[k]].ptyOpen
                           /\ ~heap'[sessions[k]].ptyOpen) =>
              sessions' = [j \in 1..(Len(sessions) - 1) |->
                              IF j < k THEN sessions[j] ELSE sessions[j + 1]]

C7_ShownNumberIsPosition ==
    screen \in {"menu", "forwards"} =>
        \A i \in 1..Len(shown) :
            /\ shown[i].num \in 1..Len(sessions)
            /\ sessions[shown[i].num] = shown[i].sess

\* C8: a create that ends with the error or the timeout report leaves the
\* registry as it was: no session appended, nextID not consumed, no exit
\* monitor started and no attach entered; and a create whose pty.Start
\* failed ends that way.
C8_Step ==
    (/\ mainPc = "create"
     /\ mainPc' # "create"
     /\ spawn.st # "ok" \/ msg' \in {"timeout", "error"}) =>
        /\ msg' \in {"timeout", "error"}
        /\ mainPc' = "menu"
        /\ sessions' = sessions
        /\ nextID' = nextID
        /\ heap' = heap
        /\ tasks' = tasks
        /\ termMode' = termMode
        /\ winch' = winch

C8_FailedCreate == [][C8_Step]_vars

\* A create timed out while one session was registered.
C8_Witness ==
    /\ mainPc = "menu"
    /\ msg = "timeout"
    /\ Len(sessions) = 1
    /\ nextID = 2

\* The report, once printed, is the last thing on the terminal.
TheReport == term[Len(term)]

\* C9: in collected mode the final report has one section per selected
\* host, in selection order; a host whose spawn failed has its error and
\* an empty output, a host that succeeded has no error and everything its
\* command wrote; whatever the order in which the tasks finished.
C9_CollectedReport ==
    mhPc \in {"reported", "returned"} =>
        /\ TheReport.kind = "report"
        /\ Len(TheReport.sections) = Len(mhSel)
        /\ \A i \in 1..Len(mhSel) :
              LET sec == TheReport.sections[i] IN
              /\ sec.host = hosts[mhSel[i]].Alias
              /\ i \in mhFailed => sec.error # "nil" /\ sec.output = <<>>
              /\ i \notin mhFailed => sec.error = "nil" /\ sec.output = mhOut[i]

\* Hosts A, B, C: B's spawn failed, A and C wrote output, C finished first.
C9_Witness ==
    /\ mhPc = "reported"
    /\ Len(mhSel) = 3
    /\ mhFailed = {2}
    /\ mhOut[1] # <<>> /\ mhOut[3] # <<>>
    /\ term[1] = [kind |-> "tick", host |-> hosts[mhSel[3]].Alias]

\* C10 as stated: in collected mode nothing is printed by the per-host
\* tasks; the only thing ever printed is the report, once.
C10_NothingButTheReport ==
    /\ \A k \in 1..Len(term) : term[k].kind = "report"
    /\ Len(term) <= 1
    /\ mhPc \in {"reported", "returned"} => Len(term) = 1

\* The selected host a progress line names.
TickIndex(k) == CHOOSE i \in 1..Len(mhSel) : hosts[mhSel[i]].Alias = term[k].host

\* C10 amended: a per-host task prints nothing but one progress line
\* naming its host, after its command has ended and its result is stored;
\* a host whose spawn failed prints nothing; the report is printed once,
\* after every task has finished, and nothing follows it.
C10_OnlyProgressThenReport ==
    /\ \A k \in 1..Len(term) :
          \/ /\ term[k].kind = "tick"
             /\ \E i \in 1..Len(mhSel) : hosts[mhSel[i]].Alias = term[k].host
             /\ mhTask[TickIndex(k)] = "done"
             /\ TickIndex(k) \notin mhFailed
             /\ results[TickIndex(k)].Output = mhOut[TickIndex(k)]
             /\ \A j \in 1..Len(term) : term[j] = term[k] => j = k
          \/ /\ term[k].kind = "report"
             /\ k = Len(term)
             /\ \A i \in 1..Len(mhTask) : mhTask[i] = "done"
    /\ mhPc = "run" => \A k \in 1..Len(term) : term[k].kind = "tick"
    /\ mhPc \in {"reported", "returned"} =>
          Len(term) >= 1 /\ term[Len(term)].kind = "report"

\* Two hosts printed their progress lines, one failed silently, and the
\* report followed.
C10_Witness ==
    /\ mhPc = "reported"
    /\ Len(term) = 3
    /\ term[1].kind = "tick" /\ term[2].kind = "tick"
    /\ mhFailed # {}

\* C11: in live mode each host's printed block is one uninterrupted unit:
\* between two writes of one host's block there is no write of another
\* host's block, and a finished block is the rule, the host line and then
\* the error or the captured output.
C11_BlocksUninterrupted ==
    /\ \A k1, k2, k3 \in 1..Len(lvTerm) :
          (k1 < k2 /\ k2 < k3 /\ lvTerm[k1].host # ""
             /\ lvTerm[k1].host = lvTerm[k3].host)
          => lvTerm[k2].host = lvTerm[k1].host
    /\ \A i \in 1..Len(lvTask) :
          lvTask[i] \in {"unlock", "done"} =>
            \E k \in 1..(Len(lvTerm) - 2) :
               /\ lvTerm[k] = LvBlockWrite(i, "p1")
               /\ lvTerm[k + 1] = LvBlockWrite(i, "p2")
               /\ lvTerm[k + 2] = LvBlockWrite(i, "p3")
               /\ lvTerm[k + 2].part = IF i \in lvFailed THEN "error" ELSE "output"
               /\ i \notin lvFailed => lvTerm[k + 2].data = lvOut[i]

\* The third host has printed its whole block first; the second, whose
\* spawn failed, is in the middle of its block while the first waits for
\* the mutex with its output captured.
C11_Witness ==
    /\ lvPc = "run"
    /\ Len(lvSel) = 3
    /\ lvTask[3] = "done" /\ lvOut[3] # <<>>
    /\ lvTask[2] = "p2" /\ 2 \in lvFailed
    /\ lvTask[1] = "lock" /\ lvOut[1] # <<>>

\* C12: closeActiveSession removes exactly one session, the one with
\* Active = true at the highest position, with its pty closed and its
\* process terminated, and leaves every other session and their order as
\* they were; with no active session it changes nothing and reports nothing.
C12_Step ==
    CloseActive =>
        LET act == {i \in 1..Len(sessions) : heap[sessions[i]].Active} IN
        IF act = {}
        THEN sessions' = sessions /\ heap' = heap /\ msg' = "none"
                /\ mainPc' = "menu"
        ELSE \E k \in act :
                /\ \A j \in act : j <= k
                /\ sessions' = [j \in 1..(Len(sessions) - 1) |->
                                   IF j < k THEN sessions[j] ELSE sessions[j + 1]]
                /\ ~heap'[sessions[k]].ptyOpen
                /\ heap'[sessions[k]].proc # "running"
                /\ Len(heap') = Len(heap)
                /\ \A p \in 1..Len(heap) : p # sessions[k] => heap'[p] = heap[p]

C13_CloseAllEmptiesRegistry ==
    mainPc = "exit" =>
        /\ \A p \in 1..Len(heap) :
              (\E i \in 1..Len(sessions) : sessions[i] = p) =>
                  ~heap[p].ptyOpen /\ heap[p].proc # "running"
        /\ Len(sessions) = 0

\* C14: session ids are at least 1, strictly increase in creation order
\* and are never reused: no two sessions ever created share an id, closed
\* and removed ones included, and nextID is above every id handed out.
C14_IdsNeverReused ==
    /\ nextID >= 1
    /\ \A p \in 1..Len(heap) : heap[p].ID >= 1 /\ heap[p].ID < nextID
    /\ \A p, q \in 1..Len(heap) : p < q => heap[p].ID < heap[q].ID

\* A second session has just been registered after the first one was
\* closed and removed from the list.
C14_Witness ==
    /\ mainPc = "attach"
    /\ cur = 2
    /\ sessions = <<2>>
    /\ ~heap[1].ptyOpen
    /\ heap[2].ID = 2

\* C15: a session is created with Active = true, and once its Active flag
\* is false no step sets it to true again, whatever the exit monitor, the
\* attach cycles and the close operations do.
C15_Step ==
    /\ \A p \in 1..Len(heap) :
          ~heap[p].Active => Len(heap') >= p /\ ~heap'[p].Active
    /\ \A p \in (Len(heap) + 1)..Len(heap') : heap'[p].Active

C15_ActiveOneWay == [][C15_Step]_vars

\* An attach was tried on a session that the exit monitor had marked
\* inactive, and a later session has been closed: the first is still
\* inactive.
C15_Witness ==
    /\ mainPc = "menu"
    /\ Len(heap) = 2
    /\ ~heap[1].Active /\ heap[1].mon = "done"
    /\ msg = "ended"
    /\ ~heap[2].ptyOpen
    /\ sessions = <<1>>

\* C16: an attach attempted on a session whose process has already
\* terminated reports to the operator and returns without entering
\* Attached: no raw mode, no resize subscription, no copy task, and the
\* session and the registry as they were.
C16_Step ==
    (mainPc = "attach" /\ heap[cur].proc # "running" /\ mainPc' # "attach") =>
        /\ mainPc' = "menu"
        /\ msg' = "ended"
        /\ termMode' = "cooked"
        /\ winch' = FALSE
        /\ tasks' = tasks
        /\ heap' = heap
        /\ sessions' = sessions

C16_EndedAttachRefused == [][C16_Step]_vars

\* The main goroutine is tearing an attach cycle down after <-ioStop.
Detaching == mainPc \in {"att_drain", "att_notice", "att_restore", "att_unsub"}

\* C17: a detach by the sentinel key leaves the session in the registry
\* at the same position with the same id, its process not terminated and
\* its pty not closed: neither the read of the sentinel nor any step of
\* the teardown that follows changes the list or a session; and a later
\* attach to a session whose process still runs is not refused, so it
\* goes on to Attached.
C17_Step ==
    /\ (\E c \in 1..Len(tasks) :
           tasks[c].inT = "run" /\ tasks'[c].inT = "detached")
          => sessions' = sessions /\ heap' = heap
    /\ (Len(tasks) > 0 /\ tasks[Len(tasks)].inT = "detached"
           /\ (Detaching \/ mainPc = "att_wait") /\ mainPc' # mainPc)
          => sessions' = sessions /\ heap' = heap
    /\ (mainPc = "attach" /\ mainPc' # "attach" /\ heap[cur].proc = "running"
           /\ \E c \in 1..Len(tasks) :
                  tasks[c].sess = cur /\ tasks[c].inT = "detached")
          => mainPc' = "att_raw"

C17_DetachKeepsSession == [][C17_Step]_vars

\* The second of two sessions was detached with the sentinel key, and an
\* attach to its number has entered Attached again: same position, same
\* id, process running, pty open.
C17_Witness ==
    /\ mainPc = "att_wait"
    /\ Len(tasks) = 2
    /\ tasks[1].inT = "detached" /\ tasks[1].sess = cur
    /\ tasks[2].inT = "run" /\ tasks[2].sess = cur
    /\ Len(sessions) = 2 /\ sessions[2] = cur
    /\ heap[cur].ID = 2
    /\ heap[cur].proc = "running" /\ heap[cur].ptyOpen

\* C18: no byte read from the controlling terminal is appended to a
\* scrollback by the input path.  A step in which the operator's input is
\* read or forwarded changes no scrollback; every change of a scrollback
\* is made by a PTY -> Stdout goroutine of that session and is either the
\* append of the bytes it has read from the session's pty or the
\* truncation to the ceiling; and what such a goroutine holds is the next
\* bytes of the pty's output, whatever was typed.
C18_Step ==
    /\ (typed' # typed \/ fwd' # fwd
          \/ \E c \in 1..Len(tasks) : tasks'[c].inT # tasks[c].inT)
          => \A s \in 1..Len(heap) : heap'[s].Scrollback = heap[s].Scrollback
    /\ \A s \in 1..Len(heap) :
          heap'[s].Scrollback # heap[s].Scrollback =>
             \E c \in 1..Len(tasks) :
                /\ tasks[c].sess = s
                /\ \/ /\ tasks[c].outT = "hold"
                      /\ heap'[s].Scrollback = heap[s].Scrollback \o tasks[c].buf
                   \/ /\ tasks[c].outT = "trunc"
                      /\ Len(heap[s].Scrollback) > MaxScrollbackSize
                      /\ heap'[s].Scrollback =
                             LastN(heap[s].Scrollback, MaxScrollbackSize)
    /\ \A c \in 1..Len(tasks) :
          (tasks'[c].buf # tasks[c].buf /\ tasks'[c].buf # <<>>) =>
             LET s == tasks[c].sess IN
             tasks'[c].buf = [i \in 1..(heap'[s].consumed - heap[s].consumed) |->
                                heap[s].consumed + i]

KeyCount(k) == Cardinality({i \in 1..Len(pgKeys) : pgKeys[i] = k})

\* After a /term search and any n and N commands: the matches are exactly
\* the lines that contain the term when both are lowered, in line order,
\* and with m > 0 matches the match cursor is at (presses of n minus
\* presses of N) modulo m, counted from the first hit.
C19_Searched ==
    (pgPc = "open" /\ Len(pgKeys) > 0) =>
        LET hits == {i \in 1..Len(pgLines) :
                        Contains(ToLower(pgLines[i]), ToLower(pgTerm))}
            m == Len(pgResults)
        IN /\ m = Cardinality(hits)
           /\ \A j \in 1..m : pgResults[j] + 1 \in hits
           /\ \A j, k \in 1..m : j < k => pgResults[j] < pgResults[k]
           /\ m > 0 => pgIndex = (KeyCount("n") - KeyCount("N")) % m

\* C19: a /term search selects exactly the lines containing term
\* case-insensitively and puts the match cursor on the first hit; n moves
\* to the next match and N to the previous one, wrapping at both ends, so
\* m presses of n come back to the starting match and n followed by N is
\* the identity; and after each of these commands the pager shows the
\* line of the match under the cursor.
C19_Step ==
    /\ C19_Searched'
    /\ ((pgTerm' # pgTerm \/ pgIndex' # pgIndex \/ pgKeys' # pgKeys)
           /\ Len(pgResults') > 0)
          => pgLine' = pgResults'[pgIndex' + 1]

C19_SearchAndWrap == [][C19_Step]_vars

\* A search with two hits, one of them in the other case than the term;
\* n was pressed twice and the cursor is back on the first hit.
C19_Witness ==
    /\ pgPc = "open"
    /\ pgKeys = << "/", "n", "n" >>
    /\ Len(pgResults) = 2
    /\ pgIndex = 0
    /\ Len(pgTerm) > 0
    /\ \E j \in 1..2 : ~Contains(pgLines[pgResults[j] + 1], pgTerm)

\* C20: the multi-host executor invoked with an empty host set prints its
\* notice, spawns no process, runs no per-host task, never enters a run
\* and returns to the command loop.
C20_EmptySelectionNoOp ==
    (lvPc # "idle" /\ Len(lvSel) = 0) =>
        /\ lvPc \in {"nohosts", "returned"}
        /\ lvSpawned = {}
        /\ Len(lvTask) = 0
        /\ lvMutex = 0
        /\ lvTerm = << [host |-> "", part |-> "nohosts", data |-> <<>>] >>

\* The executor was invoked with no host and has returned.
C20_Witness ==
    /\ lvPc = "returned"
    /\ Len(lvSel) = 0
    /\ Len(lvTerm) = 1
    /\ lvSpawned = {}

\* A spawn failure is the step of one task only: no other task of the run
\* changes its position, its buffer or its result in that step.
C21_Step ==
    /\ \A i \in 1..Len(lvTask) :
          (i \in lvFailed' /\ i \notin lvFailed) =>
             \A j \in 1..Len(lvTask) :
                j # i => lvTask'[j] = lvTask[j] /\ lvBuf'[j] = lvBuf[j]
    /\ \A i \in 1..Len(mhTask) :
          (i \in mhFailed' /\ i \notin mhFailed) =>
             \A j \in 1..Len(mhTask) :
                j # i => /\ mhTask'[j] = mhTask[j]
                         /\ mhBuf'[j] = mhBuf[j]
                         /\ results'[j] = results[j]

\* The run is over and every host whose spawn succeeded has its whole
\* output reported, without an error; the failed ones have their error.
C21_AllReported ==
    /\ lvPc = "complete" =>
          \A i \in 1..Len(lvSel) :
             \E k \in 1..Len(lvTerm) :
                /\ lvTerm[k].host = hosts[lvSel[i]].Alias
                /\ IF i \in lvFailed THEN lvTerm[k].part = "error"
                   ELSE lvTerm[k].part = "output" /\ lvTerm[k].data = lvOut[i]
    /\ mhPc = "reported" =>
          \A i \in 1..Len(mhSel) :
             LET sec == term[Len(term)].sections[i] IN
             /\ sec.host = hosts[mhSel[i]].Alias
             /\ IF i \in mhFailed THEN sec.error # "nil"
                ELSE sec.error = "nil" /\ sec.output = mhOut[i]

\* C21: in both display modes a spawn failure is recorded or printed as
\* that host's error only; it changes no other host's task, and every run
\* ends with every other host's task completed and its output reported.
C21_FailureIsolated ==
    /\ [][C21_Step]_vars
    /\ [](C21_AllReported)
    /\ (lvPc = "run") ~> (lvPc = "complete")
    /\ (mhPc = "run") ~> (mhPc = "reported")

\* A live run of three hosts is complete: the first host's spawn failed
\* and printed its error first, the two others printed their output.
C21_Witness ==
    /\ lvPc = "complete"
    /\ Len(lvSel) = 3
    /\ lvFailed = {1}
    /\ lvTerm[3].part = "error"
    /\ lvOut[2] # <<>> /\ lvOut[3] # <<>>

\* C22: the stdin goroutine never writes a byte 0 to the pty: a chunk read
\* while attached that holds the sentinel is not forwarded, not even in
\* part; the goroutine signals ioStop without blocking and returns.  A
\* chunk without the sentinel is forwarded whole or, when the write
\* fails, not at all.
C22_Step ==
    /\ \A i \in 1..Len(fwd') : fwd'[i] # 0
    /\ (Attached /\ typed' # typed) =>
          LET chunk == SubSeq(typed', Len(typed) + 1, Len(typed')) IN
          IF HasSentinel(chunk)
          THEN /\ fwd' = fwd
               /\ \E c \in 1..Len(tasks) :
                     /\ tasks[c].inT = "run" /\ tasks'[c].inT = "detached"
                     /\ ioStop'[c] = Min(ioStop[c] + 1, IoStopCap)
          ELSE fwd' = fwd \o chunk \/ fwd' = fwd

C22_SentinelNeverForwarded == [][C22_Step]_vars

\* One read returned a byte followed by the sentinel: nothing of it was
\* forwarded although the pty was open and the process running.
C22_Witness ==
    /\ typed = << 1, 0 >>
    /\ fwd = <<>>
    /\ tasks[Len(tasks)].inT = "detached"
    /\ heap[cur].ptyOpen /\ heap[cur].proc = "running"

\* The PTY -> Stdout goroutines of session s that have not returned.
Readers(s) == {c \in 1..Len(tasks) : tasks[c].sess = s /\ tasks[c].outT # "done"}

\* C23: in every reachable state at most one goroutine is reading a
\* session's pty output and appending to its scrollback.
C23_SingleReader ==
    \A s \in 1..Len(heap) : Cardinality(Readers(s)) <= 1

\* C24: a session's scrollback is always a run of consecutive bytes of
\* the pty's output, in the order the pty produced them: nothing out of
\* order, nothing twice, nothing missing in between.
C24_ScrollbackInOrder ==
    \A s \in 1..Len(heap) :
       LET sb == heap[s].Scrollback IN
       /\ \A i \in 1..(Len(sb) - 1) : sb[i + 1] = sb[i] + 1
       /\ \A i \in 1..Len(sb) : sb[i] \in 1..heap[s].consumed

\* C25: every read of the registry's collection happens with sessionsMu held
\* shared and every create or remove with it held exclusively, so no read
\* overlaps a create or remove.
C25_LockDiscipline ==
    /\ lkMain \in ReadSites => lkMu.r > 0
    /\ lkMain \in WriteSites => lkMu.w = MainGoroutine
    /\ \A i \in 1..Len(lkMon) : lkMon[i] = "write" => lkMu.w = i
    /\ ~(lkMain \in ReadSites /\ lkMu.w = MainGoroutine)

\* The copy goroutines of cycle c that have returned; each signalled once.
Finished(c) ==
    (IF tasks[c].inT \in {"done", "detached"} THEN 1 ELSE 0)
        + (IF tasks[c].outT = "done" THEN 1 ELSE 0)

\* The signals of cycle c that the main goroutine has received.
Received(c) == Finished(c) - ioStop[c]

C26_Step ==
    /\ \A c \in 1..Len(ioStop) :
          /\ ioStop'[c] < ioStop[c] =>
                /\ c = Len(ioStop)
                /\ mainPc = "att_wait" /\ mainPc' = "att_drain"
                /\ ioStop'[c] = ioStop[c] - 1
          /\ Finished(c)' > Finished(c) =>
                /\ Finished(c)' = Finished(c) + 1
                /\ ioStop'[c] = ioStop[c] + 1
                /\ mainPc' = mainPc
    /\ (mainPc = "att_wait" /\ mainPc' = "att_drain") =>
          /\ Received(Len(ioStop)) = 0
          /\ Received(Len(ioStop))' = 1
    /\ \A c \in 1..Len(ioStop') : Received(c)' \in {0, 1}

Drains == mainPc = "att_drain" /\ mainPc' = "att_notice"

Notifies == msg # "detached" /\ msg' = "detached"

Restores == termMode = "raw" /\ termMode' = "cooked"

Cancels == winch /\ ~winch'

C27_SpecStep ==
    /\ Restores => ~winch
    /\ Drains => termMode = "cooked" /\ ~winch
    /\ Notifies => termMode = "cooked" /\ ~winch /\ mainPc = "att_notice"

\* C27: teardown cancels the resize subscription, then restores the
\* terminal mode, then drains the buffered input, then displays the detach
\* notice.
C27_CancelRestoreDrainNotice == [][C27_SpecStep]_vars

C27_Step ==
    /\ Drains => termMode = "raw" /\ winch /\ msg # "detached"
    /\ Notifies =>
          /\ mainPc = "att_notice"
          /\ termMode = "raw" /\ termMode' = "raw"
          /\ winch /\ winch'
    /\ Restores =>
          /\ winch /\ winch'
          /\ ~panicking => msg = "detached"
    /\ Cancels =>
          /\ termMode = "cooked" /\ termMode' = "cooked"
          /\ (~panicking /\ msg # "rawerror") => msg = "detached"

\* C27 as the code has it: the buffered input is drained, then the detach
\* notice is displayed, then the terminal mode is restored, then the resize
\* subscription is cancelled; a fault skips what it interrupts of the first
\* two, never the order of the last two.
C27_DrainNoticeRestoreCancel == [][C27_Step]_vars

\* A cycle has gone through its whole teardown and returned.
C27_Witness ==
    /\ mainPc = "menu"
    /\ msg = "detached"
    /\ termMode = "cooked"
    /\ ~winch
    /\ Len(tasks) > 0

\* The positions of attachToSession between signal.Notify and the deferred
\* signal.Stop.
Subscribed ==
    {"att_raw", "att_wait", "att_drain", "att_notice", "att_restore",
     "att_unsub"}

\* The subscription is cancelled by the deferred call only, once, and
\* before attachToSession returns.
C28_CancelStep ==
    /\ Cancels => mainPc = "att_unsub"
    /\ (mainPc' \in Subscribed) = winch'

\* No pty changes size unless by the attach in progress: its initial
\* pty.Setsize or its resize goroutine while subscribed.
C28_SizeStep == (ptySize' # ptySize) => (mainPc = "attach" \/ winch)

\* C28: a cycle that registered a resize subscription cancels it exactly
\* once before attachToSession returns, on every exit path; after the
\* return no resize notification changes the size of the session's pty.
C28_ResizeEndsWithAttach == [][C28_CancelStep /\ C28_SizeStep]_vars

\* makeRaw has returned without error.
Acquires == mainPc = "att_raw" /\ mainPc' = "att_wait"

\* The deferred restore(os.Stdin.Fd(), oldState) is called.
RestoreCall == mainPc = "att_restore" /\ mainPc' # "att_restore"

\* An acquisition that no restore has followed yet.
Outstanding == termMode = "raw"

C29_Step ==
    /\ Acquires => ~Outstanding /\ Outstanding'
    /\ RestoreCall => Outstanding /\ ~Outstanding'
    /\ (Outstanding' # Outstanding) => (Acquires \/ RestoreCall)
    /\ Outstanding' =>
          mainPc' \in {"att_wait", "att_drain", "att_notice", "att_restore"}

C30_TimeoutLeavesNothing ==
    \A i \in 1..Len(crRuns) :
        crRuns[i].outcome = "timeout" =>
            crRuns[i].proc # "running" /\ crRuns[i].pty # "open"

\* A copy goroutine of the attached cycle has returned on a failed read or
\* write while the main goroutine waits in <-ioStop.
IOFailure ==
    /\ mainPc = "att_wait"
    /\ \/ tasks[Len(tasks)].inT = "done"
       \/ tasks[Len(tasks)].outT = "done"

\* attachToSession has returned the way a detach returns: the notice was
\* printed, the terminal is cooked, the subscription is cancelled, and the
\* session is still in the registry.
BackAsDetached ==
    /\ mainPc = "menu"
    /\ msg = "detached"
    /\ termMode = "cooked"
    /\ ~winch
    /\ \E i \in 1..Len(sessions) : sessions[i] = tasks[Len(tasks)].sess

\* C31: while a session is attached, a failed read or write in either copy
\* goroutine, the pty read failure after the remote process is gone
\* included, leads to the teardown and back to the command loop, as the
\* detach key does.
C31_FailureDetaches == IOFailure ~> BackAsDetached

\* A cycle has ended because the pty read failed; the operator never typed
\* the detach key and the stdin goroutine is still in its loop.
C31_Witness ==
    /\ BackAsDetached
    /\ tasks[Len(tasks)].outT = "done"
    /\ tasks[Len(tasks)].inT = "run"

\* The process of session s is gone: it exited, or it was killed by a
\* signal, by closeActiveSession or by closeAllSessions.
Terminated(s) == s <= Len(heap) /\ heap[s].proc # "running"

Marked(s) == s <= Len(heap) /\ ~heap[s].Active

\* The flag is written by the monitor's one assignment and by nothing else.
C32_Step ==
    \A s \in 1..Len(heap) :
        heap'[s].Active # heap[s].Active =>
            /\ heap[s].mon = "lock" /\ heap'[s].mon = "done"
            /\ heap[s].Active /\ ~heap'[s].Active

\* C32: once a session's process terminates its monitor eventually sets
\* Active to false, and writes it once; also when closeActiveSession or
\* closeAllSessions caused the termination.
C32_MonitorMarksOnce ==
    /\ [][C32_Step]_vars
    /\ \A s \in 1..MaxSessions : Terminated(s) ~> Marked(s)

\* C32 as the code has it: the same, as long as the program runs; after
\* closeAllSessions main returns and the program may exit before the
\* monitors of the sessions it killed have run.
C32_MonitorMarksOnceUnlessExit ==
    /\ [][C32_Step]_vars
    /\ \A s \in 1..MaxSessions :
          Terminated(s) ~> (Marked(s) \/ mainPc \in {"exit", "terminated"})

\* closeActiveSession killed the session's process and removed the session;
\* its monitor has set the flag since, and the program still runs.
C32_Witness ==
    /\ mainPc = "menu"
    /\ sessions = <<>>
    /\ Len(heap) = 1
    /\ heap[1].proc = "killed" /\ ~heap[1].ptyOpen
    /\ heap[1].mon = "done" /\ ~heap[1].Active

\* The PTY -> Stdout goroutine of cycle c reads from the pty and writes what
\* it read to os.Stdout.
WritesTerminal(c) == tasks[c].outT = "run" /\ tasks'[c].outT = "hold"

\* The Stdin -> PTY goroutine of cycle c returns from os.Stdin.Read with a
\* chunk that holds the detach key.
ConsumesInput(c) == tasks[c].inT = "run" /\ tasks'[c].inT = "detached"

\* C33: a copy goroutine left over by a cycle that was torn down is
\* harmless: while the command loop is at its menu it writes no pty output
\* to the terminal and takes no input typed at the menu prompt.
C33_LeftoverHarmless ==
    [][mainPc = "menu" =>
          \A c \in 1..Len(tasks) : ~WritesTerminal(c) /\ ~ConsumesInput(c)]_vars

\* The positions of the main goroutine inside attachToSession.
InAttach ==
    {"attach", "att_raw", "att_wait", "att_drain", "att_notice",
     "att_restore", "att_unsub", "att_recover"}

\* The command loop calls attachToSession: from createSession after the
\* registration, or for the !N command.
StartsAttach == mainPc' = "attach" /\ mainPc # "attach"

C34_Step ==
    /\ StartsAttach => mainPc \in {"menu", "create"}
    /\ (mainPc \in InAttach /\ mainPc' \in InAttach) => cur' = cur
    /\ (mainPc \in InAttach /\ mainPc' \notin InAttach) => mainPc' = "menu"

\* C34: at most one attach is in progress at any time: attachToSession is
\* called from the command loop only, which is blocked in it until it
\* returns, so no attach starts for any session while another has not
\* returned.
C34_OneAttachAtATime == [][C34_Step]_vars

\* A second session is attached while the first, detached earlier, is still
\* open.
C34_Witness ==
    /\ mainPc = "att_wait"
    /\ Len(sessions) = 2
    /\ cur = sessions[2]
    /\ Len(tasks) = 2 /\ tasks[1].sess = sessions[1]

\* Every task of the run exists from the driver's first step on: one per
\* selected host, started before wg.Wait().
C35_AllStarted ==
    /\ lvPc = "run" => Len(lvTask) = Len(lvSel)
    /\ mhPc = "run" => Len(mhTask) = Len(mhSel)

\* A task that has not started its command, or is copying its output, can
\* take its next step whatever the other tasks are doing.
C35_Independent ==
    /\ \A i \in 1..Len(lvTask) :
          /\ lvTask[i] = "start" => ENABLED (\E k \in 0..MaxHostOut : LvSpawnOk(i, k))
          /\ lvTask[i] = "copy" =>
                ENABLED (LvCopyEnd(i) \/ \E n \in 1..MaxHostOut : LvCopy(i, n))
    /\ \A i \in 1..Len(mhTask) :
          /\ mhTask[i] = "start" => ENABLED (\E k \in 0..MaxHostOut : MhSpawnOk(i, k))
          /\ mhTask[i] = "copy" =>
                ENABLED (MhStore(i) \/ \E n \in 1..MaxHostOut : MhCopy(i, n))

\* The driver leaves wg.Wait() only when every task has finished.
C35_Step ==
    /\ (lvPc = "run" /\ lvPc' # "run") =>
          lvPc' = "complete" /\ \A i \in 1..Len(lvTask) : lvTask[i] = "done"
    /\ (mhPc = "run" /\ mhPc' # "run") =>
          mhPc' = "reported" /\ \A i \in 1..Len(mhTask) : mhTask[i] = "done"

\* C35: in both modes the driver starts every per-host task before it
\* waits, no task waits for another host's command, the driver goes on to
\* the report or the completion message only after every task has finished,
\* and it does go on once every command has ended.
C35_ParallelThenJoin ==
    /\ [](C35_AllStarted /\ C35_Independent)
    /\ [][C35_Step]_vars
    /\ (lvPc = "run") ~> (lvPc = "complete")
    /\ (mhPc = "run") ~> (mhPc = "reported")

\* Three hosts in live mode, all three commands running at once.
C35_Witness ==
    /\ lvPc = "run"
    /\ Len(lvTask) = 3
    /\ \A i \in 1..3 : lvTask[i] = "copy"

\* A step of the multi-host executor: its driver or one of its tasks.
ExecutorStep == multiVars' # multiVars \/ liveVars' # liveVars

\* C36: a multi-host execution, in either mode and whatever the outcomes,
\* leaves the registry as it is: no session is added or removed, nextID is
\* not consumed, and no session's Active flag or scrollback is changed by
\* it.
C36_RegistryUntouched ==
    [][ExecutorStep => UNCHANGED <<sessions, nextID, heap>>]_vars

\* A collected run has returned while a session opened before it is still
\* registered and active, and no id was taken.
C36_Witness ==
    /\ mhPc = "returned"
    /\ Len(sessions) = 1
    /\ heap[sessions[1]].Active
    /\ nextID = 2

\* C37: in every reachable state every session's scrollback holds at most
\* MaxScrollbackSize bytes, however the goroutines that append to it
\* interleave.
C37_CeilingAlways ==
    \A s \in 1..Len(heap) : Len(heap[s].Scrollback) <= MaxScrollbackSize

\* C38: when the multi-host executor is back in the command loop every input
\* copy it started has returned, the input copy of a host has returned once
\* that host's task is done, and no line typed after the return was read by
\* an input copy.
C38_InputCopiesEndWithTasks ==
    /\ lvPc = "returned" => InputCopies \subseteq icEnded
    /\ \A idx \in InputCopies : lvTask[idx] = "done" => idx \in icEnded
    /\ \A i \in 1..Len(icTaken) : icTaken[i].at # "returned"

\* makeRaw has returned an error.
RawFails == mainPc = "att_raw" /\ mainPc' = "att_unsub"

\* attachToSession returns after the error of makeRaw.
FailureReturn ==
    /\ mainPc = "att_unsub"
    /\ msg = "rawerror"
    /\ ~panicking
    /\ mainPc' # mainPc

C39_Step ==
    /\ RawFails =>
          /\ msg' = "rawerror"
          /\ termMode = "cooked"
          /\ winch /\ winch'
          /\ UNCHANGED <<tasks, ioStop, termMode, sessions, nextID, heap>>
    /\ FailureReturn =>
          /\ mainPc' = "menu"
          /\ winch /\ ~winch'
          /\ ~RestoreCall
          /\ UNCHANGED <<tasks, ioStop, termMode, sessions, nextID, heap, msg>>

\* C39: when makeRaw fails, attachToSession reports the error and returns
\* without starting a copy goroutine and without calling restore, cancels
\* the resize subscription on the way out, and leaves the session, its
\* scrollback and the registry as they were.
C39_RawFailureLeavesNothing == [][C39_Step]_vars

\* A re-attach to a registered session has failed in makeRaw after an
\* earlier cycle of the session, and attachToSession has returned to the
\* menu.
C39_Witness ==
    /\ mainPc = "menu"
    /\ msg = "rawerror"
    /\ ~winch
    /\ termMode = "cooked"
    /\ Len(tasks) = 1
    /\ Len(sessions) = 1

\* The pager is in its loop with currentLine on an existing line and, when
\* there are matches, searchIndex on one of them.
PagerInBounds ==
    pgPc = "open" =>
        /\ pgLine \in 0..(Len(pgLines) - 1)
        /\ Len(pgResults) > 0 =>
              /\ pgIndex \in 0..(Len(pgResults) - 1)
              /\ \A j \in 1..Len(pgResults) :
                    pgResults[j] \in 0..(Len(pgLines) - 1)

\* A /term command that found no line.
SearchMiss ==
    /\ pgPc = "open"
    /\ pgKeys' = << "/" >>
    /\ pgResults' = <<>>
    /\ <<pgTerm, pgResults, pgKeys>>' # <<pgTerm, pgResults, pgKeys>>

\* C40: whatever commands of j, k, g, G, /term, n and N the pager has
\* processed, the current line is one of the lines, the match cursor is on
\* an existing match whenever there are matches, and a search that finds
\* nothing leaves the current line where it was.
C40_PagerStaysInBounds ==
    /\ [](PagerInBounds)
    /\ [][SearchMiss => pgLine' = pgLine]_vars

\* A failed search has followed a scroll to the last page of a buffer of
\* more lines than a page, with the current line still on that page.
C40_Witness ==
    /\ pgPc = "open"
    /\ Len(pgLines) > PageSize
    /\ pgLine = Len(pgLines) - PageSize
    /\ pgKeys = << "/" >>
    /\ Len(pgTerm) > 0
    /\ pgResults = <<>>
====
